---- MODULE Spec2Model ----
(***************************************************************************)
(* Frame lifecycle and GPU resource management of the kast renderer        *)
(* (core/src/graphics/renderer.rs, swapchain.rs, frame.rs).                *)
(*                                                                         *)
(* The CPU side is one thread: the event loop calls Renderer::draw_frame   *)
(* and Renderer::resize one at a time.  The GPU side completes submitted   *)
(* render batches and queued presents asynchronously and signals the       *)
(* fences attached to them.  draw_frame is split at its one blocking call  *)
(* (vkWaitForFences); everything after the wait is one step.               *)
(***************************************************************************)
EXTENDS Integers, Sequences, FiniteSets, TLC

\* ------------------------------------------------------------ constants
MAX_FRAMES_IN_FLIGHT == 3
GLOBAL_BUFFER_SIZE == 67108864
\* size_of::<Vertex>(): position [f32; 3] and texture_coords [f32; 2], repr(C)
VERTEX_SIZE == 20
\* size_of::<u32>()
INDEX_SIZE == 4
\* capacity, in elements, of the object storage buffer of a frame slot
MAX_OBJECT == 10000

\* ------------------------------------------------------------ bounds
\* draw_frame calls and swapchain recreations of a run (safety runs, then the
\* smaller runs checked for liveness), and upload_mesh calls of a run.
MaxDraws == 10
MaxResizes == 2
MaxFairDraws == 5
MaxFairResizes == 1
MaxUploads == 3
\* The event loop from before the first `resumed`: draw_frame calls, swapchain
\* recreations and upload_mesh calls made on top of those of Scene::new.
MaxAppDraws == 1
MaxAppResizes == 1
MaxAppUploads == 1
\* Swapchain creation against a changing surface: draw_frame calls and swapchain
\* recreations of a run, and the length of the list of surface formats.
MaxSurfaceDraws == 1
MaxSurfaceResizes == 2
MaxFormats == 2
MaxPresentModes == 2
MaxNegotiationDraws == 1
MaxNegotiationResizes == 1
MaxRecordDraws == 2
MaxRecordResizes == 1
MaxDeletionDraws == 3
MaxDeletionResizes == 2
\* The length of VkPhysicalDeviceMemoryProperties.memoryTypes (32 in Vulkan).
MaxMemoryTypes == 3

Slots == 0 .. (MAX_FRAMES_IN_FLIGHT - 1)

\* Result codes the code distinguishes for vkAcquireNextImageKHR and
\* vkQueuePresentKHR; "ERROR" stands for every other VkResult.
VkResults == {"VK_SUCCESS", "VK_SUBOPTIMAL_KHR", "VK_ERROR_OUT_OF_DATE_KHR", "ERROR"}

\* Inputs of upload_mesh: numbers of vertices and of indices.
VertexCounts == {0, 3, 4, 1677721, 3355443}
IndexCounts == {0, 3, 6, 8388608, 16777216}

\* The Option fields of ApplicationWindow that `resumed` fills.
Created == {"instance", "window", "renderer", "scene", "last_frame_time"}

\* Sizes a WindowEvent::Resized carries.
Widths == {0, 800}
Heights == {0, 600}

VARIABLES
    current_frame_index,        \* Renderer.current_frame_index
    in_flight_fence,            \* frames[i].in_flight_fence is signaled
    present_fence,              \* frames[i].present_fence is signaled
    delete_queue_framebuffers,  \* frames[i].delete_queue_framebuffers
    delete_queue_image_views,   \* frames[i].delete_queue_image_views
    swapchain,                  \* Renderer.swapchain.handle (its views and framebuffers carry the same id)
    vertex_buffer_offset,       \* Renderer.vertex_buffer_offset
    index_buffer_offset,        \* Renderer.index_buffer_offset
    pc,                         \* where the CPU thread is
    gpu_work,                   \* batches submitted / presents queued, not yet completed
    destroyed_swapchains,       \* handles passed to vkDestroySwapchainKHR
    destroyed_framebuffers,     \* framebuffers (by swapchain) passed to vkDestroyFramebuffer
    destroyed_image_views,      \* image views (by swapchain) passed to vkDestroyImageView
    freed,                      \* what the latest drain destroyed, and what still used it then
    retired,                    \* the latest vkDestroySwapchainKHR, and the presents pending on it then
    draw_calls,                 \* number of draw_frame calls so far
    visited,                    \* per draw_frame call past the wait: the slot it used
    cpu_writes,                 \* the CPU accesses to slot resources of the latest draw_frame
    uploads,                    \* per completed upload_mesh call: the copies submitted and the Mesh returned
    staging_buffers,            \* number of staging buffers created by upload_mesh
    last_upload,                \* the latest upload_mesh call: what it found and how it ended
    created,                    \* the fields of ApplicationWindow that are Some
    swapchain_state,            \* Renderer.swapchain: surface_format, extent, image_count, image_views, framebuffers
    surface,                    \* what the surface and the window reported to the latest Swapchain::new
    physical_device,            \* what vkGetPhysicalDeviceMemoryProperties reports
    memory_type,                \* the latest find_memory_type call: its arguments and how it ended
    startup,                    \* number of Vulkan calls Renderer::new has made, from the upload command pool on
    failed_calls,               \* the call sites that returned a non-success code
    scene,                      \* ApplicationWindow.scene.entities
    frame_log,                  \* what the latest draw_frame call did after its wait, in program order
    upload_log,                 \* what the latest upload_mesh call did, in program order
    textures,                   \* the texture images of Renderer::new: their data, their upload, their layouts
    drop_log                    \* what the drop of the Renderer did, in program order

vars == <<current_frame_index, in_flight_fence, present_fence,
          delete_queue_framebuffers, delete_queue_image_views, swapchain,
          vertex_buffer_offset, index_buffer_offset, pc, gpu_work,
          destroyed_swapchains, destroyed_framebuffers, destroyed_image_views,
          freed, retired, draw_calls, visited, cpu_writes, uploads, staging_buffers, last_upload,
          created, swapchain_state, surface,
          physical_device, memory_type, startup, failed_calls, scene, frame_log, upload_log, textures,
          drop_log>>

arena_vars == <<vertex_buffer_offset, index_buffer_offset, uploads,
                staging_buffers, last_upload>>

frame_vars == <<current_frame_index, in_flight_fence, present_fence,
                delete_queue_framebuffers, delete_queue_image_views, swapchain,
                gpu_work, destroyed_swapchains, destroyed_framebuffers,
                destroyed_image_views, freed, retired, draw_calls, visited, cpu_writes>>

app_vars == <<created, scene>>

log_vars == <<frame_log, upload_log, textures, drop_log>>

swapchain_vars == <<swapchain_state, surface>>

device_vars == <<physical_device, memory_type, startup, failed_calls>>

\* ------------------------------------------------------------ Swapchain::new

\* u32::MAX, the width by which a surface reports "no current extent".  It is
\* only compared for equality; it is written here as the largest integer the
\* model checker has, above every size in the model.
UINT32_MAX == 2147483647

PreferredFormat ==
    [format |-> "VK_FORMAT_B8G8R8A8_UNORM", colorSpace |-> "VK_COLOR_SPACE_SRGB_NONLINEAR_KHR"]

\* Entries vkGetPhysicalDeviceSurfaceFormatsKHR may report.
SurfaceFormats ==
    {PreferredFormat,
     [format |-> "VK_FORMAT_B8G8R8A8_SRGB", colorSpace |-> "VK_COLOR_SPACE_SRGB_NONLINEAR_KHR"],
     [format |-> "VK_FORMAT_B8G8R8A8_UNORM", colorSpace |-> "VK_COLOR_SPACE_EXTENDED_SRGB_LINEAR_EXT"]}

\* Modes vkGetPhysicalDeviceSurfacePresentModesKHR may report.
PresentModes ==
    {"VK_PRESENT_MODE_IMMEDIATE_KHR", "VK_PRESENT_MODE_MAILBOX_KHR",
     "VK_PRESENT_MODE_FIFO_KHR", "VK_PRESENT_MODE_FIFO_RELAXED_KHR"}

\* The lists of reported present modes, the empty one (the count query's result
\* is not looked at, and a failed query leaves the count at 0) among them: no
\* mode is reported twice.
PresentModeLists ==
    {l \in UNION {[1 .. n -> PresentModes] : n \in 0 .. MaxPresentModes} :
        \A j \in DOMAIN l, k \in DOMAIN l : j # k => l[j] # l[k]}

\* The non-empty lists of reported formats: no entry is reported twice.
FormatLists ==
    {l \in UNION {[1 .. n -> SurfaceFormats] : n \in 1 .. MaxFormats} :
        \A j \in DOMAIN l, k \in DOMAIN l : j # k => l[j] # l[k]}

\* The formats whose optimalTilingFeatures have VK_FORMAT_FEATURE_COLOR_ATTACHMENT_BIT:
\* all of them, or all but the preferred one.
AttachmentFormats ==
    {{f.format : f \in SurfaceFormats},
     {f.format : f \in SurfaceFormats} \ {PreferredFormat.format}}

\* capabilities.currentExtent: undefined, or a size.
CurrentExtents ==
    {[width |-> UINT32_MAX, height |-> UINT32_MAX], [width |-> 640, height |-> 480]}

\* capabilities.minImageExtent and maxImageExtent.
ExtentBounds ==
    {[min |-> [width |-> 100, height |-> 100], max |-> [width |-> 800, height |-> 800]],
     [min |-> [width |-> 50, height |-> 400], max |-> [width |-> 1000, height |-> 400]]}

\* window.inner_size()
InnerSizes == {[width |-> w, height |-> h] : w \in {50, 400, 1000}, h \in {50, 400, 1000}}

\* capabilities.minImageCount and maxImageCount (0: no maximum), and how many
\* images beyond the requested minimum the implementation creates.
ImageCounts ==
    {[min |-> 2, max |-> 0, extra |-> 0], [min |-> 2, max |-> 2, extra |-> 0],
     [min |-> 2, max |-> 3, extra |-> 1], [min |-> 3, max |-> 8, extra |-> 0],
     [min |-> 1, max |-> 8, extra |-> 1]}

\* What one Swapchain::new reads from the surface, the physical device and the
\* window.  The surface every run other than the surface runs sees:
DefaultSurface ==
    [capabilities |-> [currentExtent |-> [width |-> 640, height |-> 480],
                       minImageExtent |-> [width |-> 100, height |-> 100],
                       maxImageExtent |-> [width |-> 800, height |-> 800],
                       minImageCount |-> 2, maxImageCount |-> 0],
     formats |-> <<PreferredFormat>>,
     attachment |-> {f.format : f \in SurfaceFormats},
     inner_size |-> [width |-> 640, height |-> 480],
     extra_images |-> 0,
     create_result |-> "VK_SUCCESS",
     present_modes |-> <<"VK_PRESENT_MODE_FIFO_KHR">>]

\* The surfaces of the surface runs: each of the three things Swapchain::new
\* resolves (extent, format, image count) takes every input of its kind.
Surfaces ==
    {[DefaultSurface EXCEPT !.capabilities.currentExtent = ce,
                            !.capabilities.minImageExtent = b.min,
                            !.capabilities.maxImageExtent = b.max,
                            !.inner_size = sz] :
        ce \in CurrentExtents, b \in ExtentBounds, sz \in InnerSizes}
    \cup {[DefaultSurface EXCEPT !.formats = l, !.attachment = a] :
        l \in FormatLists, a \in AttachmentFormats}
    \cup {[DefaultSurface EXCEPT !.capabilities.minImageCount = c.min,
                                 !.capabilities.maxImageCount = c.max,
                                 !.extra_images = c.extra] : c \in ImageCounts}

Range(seq) == {seq[k] : k \in 1 .. Len(seq)}

\* u32::min and u32::max
Min(a, b) == IF a <= b THEN a ELSE b
Max(a, b) == IF a >= b THEN a ELSE b

\* choose_surface_format: the first reported entry that is attachment-capable
\* and is (B8G8R8A8_UNORM, SRGB_NONLINEAR); without one, surface_formats[0].
choose_surface_formatFirst(formats, attachment) == formats[1]
choose_surface_format(formats, attachment) ==
    LET found == {k \in 1 .. Len(formats) :
                    /\ formats[k].format \in attachment
                    /\ formats[k].format = "VK_FORMAT_B8G8R8A8_UNORM"
                    /\ formats[k].colorSpace = "VK_COLOR_SPACE_SRGB_NONLINEAR_KHR"}
    IN  IF found # {}
        THEN formats[CHOOSE k \in found : \A l \in found : k <= l]
        ELSE formats[1]

\* None => { println!(..); surface_formats[0] }: indexing an empty Vec panics.
\* Whether choose_surface_format panics on the list `formats`.
choose_surface_formatPanics(formats, attachment) ==
    /\ ~\E k \in 1 .. Len(formats) :
            /\ formats[k].format \in attachment
            /\ formats[k].format = "VK_FORMAT_B8G8R8A8_UNORM"
            /\ formats[k].colorSpace = "VK_COLOR_SPACE_SRGB_NONLINEAR_KHR"
    /\ Len(formats) = 0

\* let mut image_count = minImageCount + 1, capped by maxImageCount when it is > 0.
RequestedImageCountNoLimitCheck(capabilities) ==
    LET image_count == capabilities.minImageCount + 1
    IN  IF image_count > capabilities.maxImageCount
        THEN capabilities.maxImageCount
        ELSE image_count
RequestedImageCount(capabilities) ==
    LET image_count == capabilities.minImageCount + 1
    IN  IF capabilities.maxImageCount > 0 /\ image_count > capabilities.maxImageCount
        THEN capabilities.maxImageCount
        ELSE image_count

\* let present_mode = if present_modes.contains(&VK_PRESENT_MODE_MAILBOX_KHR)
\*     { VK_PRESENT_MODE_MAILBOX_KHR } else { VK_PRESENT_MODE_FIFO_KHR };
present_modeFirstOnly(present_modes) ==
    IF Len(present_modes) > 0 /\ present_modes[1] = "VK_PRESENT_MODE_MAILBOX_KHR"
    THEN "VK_PRESENT_MODE_MAILBOX_KHR"
    ELSE "VK_PRESENT_MODE_FIFO_KHR"
present_mode(present_modes) ==
    IF \E k \in 1 .. Len(present_modes) : present_modes[k] = "VK_PRESENT_MODE_MAILBOX_KHR"
    THEN "VK_PRESENT_MODE_MAILBOX_KHR"
    ELSE "VK_PRESENT_MODE_FIFO_KHR"

\* The swap extent: currentExtent when defined, else the window size clamped
\* as min.max(max.min(size)) in each dimension.
ResolveExtentSwapped(capabilities, inner_size) ==
    IF capabilities.currentExtent.width # UINT32_MAX
    THEN capabilities.currentExtent
    ELSE [width |-> Min(capabilities.minImageExtent.width,
                        Max(capabilities.maxImageExtent.width, inner_size.width)),
          height |-> Min(capabilities.minImageExtent.height,
                         Max(capabilities.maxImageExtent.height, inner_size.height))]
ResolveExtent(capabilities, inner_size) ==
    IF capabilities.currentExtent.width # UINT32_MAX
    THEN capabilities.currentExtent
    ELSE [width |-> Max(capabilities.minImageExtent.width,
                        Min(capabilities.maxImageExtent.width, inner_size.width)),
          height |-> Max(capabilities.minImageExtent.height,
                         Min(capabilities.maxImageExtent.height, inner_size.height))]

\* Swapchain::new(.., old_swapchain, surface_format) with the new handle `handle`:
\* `pinned` is the Option passed (a set with at most one format).  The images
\* are those vkGetSwapchainImagesKHR returns, one view is created per image,
\* and framebuffers start empty.  `format_chosen` keeps whether format
\* selection ran.
\* core::ptr::null_mut() as a swapchain handle
NullHandle == -1

\* if result != VK_SUCCESS { panic!(..) }
\* if old_swapchain != core::ptr::null_mut() { vkDestroySwapchainKHR(device, old_swapchain, ..) }
\* The handles Swapchain::new destroys when vkCreateSwapchainKHR returned `result`.
DestroyedOldSwapchainUnchecked(old_swapchain, result) == {old_swapchain}
DestroyedOldSwapchain(old_swapchain, result) ==
    IF result = "VK_SUCCESS" /\ old_swapchain # NullHandle THEN {old_swapchain} ELSE {}

\* Swapchain::new that creates the swapchain `handle`, given `old_swapchain`.
CreateSwapchain(s, handle, old_swapchain, pinned) ==
    LET surface_format == IF pinned = {}
                          THEN choose_surface_format(s.formats, s.attachment)
                          ELSE CHOOSE f \in pinned : TRUE
        image_count == RequestedImageCount(s.capabilities) + s.extra_images
    IN  [surface_format |-> surface_format,
         extent |-> ResolveExtent(s.capabilities, s.inner_size),
         image_count |-> image_count,
         image_views |-> [k \in 1 .. image_count |->
                             [swapchain |-> handle, image |-> k - 1,
                              format |-> surface_format.format]],
         framebuffers |-> <<>>,
         format_chosen |-> pinned = {},
         old_swapchain |-> old_swapchain,
         minImageCount |-> RequestedImageCount(s.capabilities),
         presentMode |-> present_mode(s.present_modes)]

\* Swapchain::create_framebuffers: one framebuffer per image view, of the
\* swapchain's extent.
create_framebuffersFirstOnly(sc) ==
    [sc EXCEPT !.framebuffers =
        [k \in 1 .. Min(1, Len(sc.image_views)) |->
            [attachment |-> sc.image_views[k],
             width |-> sc.extent.width, height |-> sc.extent.height]]]
create_framebuffers(sc) ==
    [sc EXCEPT !.framebuffers =
        [k \in 1 .. Len(sc.image_views) |->
            [attachment |-> sc.image_views[k],
             width |-> sc.extent.width, height |-> sc.extent.height]]]

\* resize: Some(self.swapchain.surface_format)
PinnedFormatNone(sc) == {}
PinnedFormat(sc) == {sc.surface_format}

\* ------------------------------------------------------------ find_memory_type

\* VkMemoryPropertyFlags: DEVICE_LOCAL = 1, HOST_VISIBLE = 2, HOST_COHERENT = 4.
\* The propertyFlags of a memory type: none, DEVICE_LOCAL, HOST_VISIBLE,
\* HOST_VISIBLE | HOST_COHERENT, all three.
MemoryPropertyFlags == {0, 1, 2, 6, 7}

\* What the callers ask for: DEVICE_LOCAL, or HOST_VISIBLE | HOST_COHERENT.
RequestedProperties == {1, 6}

\* memoryTypeBits of the VkMemoryRequirements of a buffer or an image.
TypeFilters == 0 .. (2^MaxMemoryTypes - 1)

\* VkPhysicalDeviceMemoryProperties: the array has MaxMemoryTypes entries, of
\* which the first memoryTypeCount are valid.
MemoryTables ==
    [memoryTypeCount : 0 .. MaxMemoryTypes,
     memoryTypes : [0 .. (MaxMemoryTypes - 1) -> [propertyFlags : MemoryPropertyFlags]]]

\* The device every run other than the memory runs sees: a DEVICE_LOCAL type
\* and a HOST_VISIBLE | HOST_COHERENT type.
DefaultMemory ==
    [memoryTypeCount |-> 2,
     memoryTypes |-> [i \in 0 .. (MaxMemoryTypes - 1) |->
                         [propertyFlags |-> IF i = 0 THEN 1 ELSE IF i = 1 THEN 6 ELSE 0]]]

\* a & b on unsigned integers
RECURSIVE BitAnd(_, _)
BitAnd(a, b) ==
    IF a = 0 \/ b = 0 THEN 0
    ELSE (a % 2) * (b % 2) + 2 * BitAnd(a \div 2, b \div 2)

\* (type_filter & (1 << i)) != 0 && (memoryTypes[i].propertyFlags & properties) == properties
MemoryTypeMatchesAnyFlag(memory_properties, type_filter, properties, i) ==
    /\ BitAnd(type_filter, 2^i) # 0
    /\ BitAnd(memory_properties.memoryTypes[i].propertyFlags, properties) # 0
MemoryTypeMatches(memory_properties, type_filter, properties, i) ==
    /\ BitAnd(type_filter, 2^i) # 0
    /\ BitAnd(memory_properties.memoryTypes[i].propertyFlags, properties) = properties

\* for i in 0..memory_properties.memoryTypeCount { if .. { return i; } }  panic!(..)
RECURSIVE ScanMemoryTypes(_, _, _, _)
ScanMemoryTypes(memory_properties, type_filter, properties, i) ==
    IF i >= memory_properties.memoryTypeCount
    THEN [panic |-> "Failed to find suitable memory type!", index |-> {}]
    ELSE IF MemoryTypeMatches(memory_properties, type_filter, properties, i)
    THEN [panic |-> "none", index |-> {i}]
    ELSE ScanMemoryTypes(memory_properties, type_filter, properties, i + 1)

find_memory_type(memory_properties, type_filter, properties) ==
    ScanMemoryTypes(memory_properties, type_filter, properties, 0)

\* Before the first call of find_memory_type.
NoMemoryType ==
    [called |-> FALSE, type_filter |-> 0, properties |-> 0, index |-> {}, panic |-> "none"]

\* ------------------------------------------------------------ Vulkan calls of Renderer::new

\* A call of a Vulkan command that returns a VkResult, at source:line;
\* `checked` says whether the code compares the result with VK_SUCCESS and
\* panics when it differs.
Site(call, source, line, checked) ==
    [call |-> call, source |-> source, line |-> line, checked |-> checked]

\* AllocatedBuffer::new
AllocatedBufferNew ==
    <<Site("vkCreateBuffer", "buffer.rs", 39, TRUE),
      Site("vkAllocateMemory", "buffer.rs", 65, TRUE),
      Site("vkBindBufferMemory", "buffer.rs", 77, TRUE)>>

\* Image::new, with the image view utils::create_image_view makes for it
ImageNew ==
    <<Site("vkCreateImage", "image.rs", 71, TRUE),
      Site("vkAllocateMemory", "image.rs", 103, TRUE),
      Site("vkBindImageMemory", "image.rs", 110, TRUE),
      Site("vkCreateImageView", "utils.rs", 70, TRUE)>>

\* utils::immediate_submit: no result is looked at
immediate_submit ==
    <<Site("vkAllocateCommandBuffers", "utils.rs", 110, FALSE),
      Site("vkBeginCommandBuffer", "utils.rs", 119, FALSE),
      Site("vkEndCommandBuffer", "utils.rs", 121, FALSE),
      Site("vkQueueSubmit", "utils.rs", 135, FALSE),
      Site("vkQueueWaitIdle", "utils.rs", 136, FALSE)>>

\* The results of vkQueueSubmit and vkQueueWaitIdle in immediate_submit, which
\* discards both.
SubmitResults == {"VK_SUCCESS", "ERROR"}

\* Whether the copies of an immediate_submit can still be pending on the queue
\* when it returns: not when nothing was submitted, not when vkQueueWaitIdle
\* returned success; when the wait failed the copies may or may not be done.
CopyPendingAfter(submit, wait) ==
    IF submit = "VK_SUCCESS" /\ wait # "VK_SUCCESS" THEN BOOLEAN ELSE {FALSE}

\* utils::immediate_submit recording `commands`, in program order.
immediate_submitSteps(commands, submit, wait) ==
    <<[op |-> "vkAllocateCommandBuffers"], [op |-> "vkBeginCommandBuffer"]>>
        \o commands
        \o <<[op |-> "vkEndCommandBuffer"],
              [op |-> "vkQueueSubmit", result |-> submit],
              [op |-> "vkQueueWaitIdle", result |-> wait],
              [op |-> "vkFreeCommandBuffers"]>>

\* ------------------------------------------------------------ textures

\* pub const BYTES_PER_PIXEL: usize = 4 * core::mem::size_of::<u8>()
BYTES_PER_PIXEL == 4

\* ImageData::get_data_size
get_data_size(image_data) ==
    image_data.width * image_data.height * image_data.bytes_per_pixel

\* ImageData { bytes_per_pixel, width, height, data }, with data filled as
\* Scene::get_textures fills it: vec![0xFF; get_data_size()].
ImageData(width, height) ==
    [bytes_per_pixel |-> BYTES_PER_PIXEL, width |-> width, height |-> height,
     data_len |-> width * height * BYTES_PER_PIXEL]

\* Scene::get_textures: a 4x4 and an 8x8 image
get_textures == <<ImageData(4, 4), ImageData(8, 8)>>

\* The images_data Renderer::new may be given.
TextureSets ==
    {get_textures,
     <<ImageData(4, 4)>>,
     <<ImageData(8, 8), ImageData(4, 4), ImageData(8, 8)>>}

\* `offset` of the recording closure when it reaches image i:
\* offset += images_data[i].get_data_size() after each image.
RECURSIVE BufferOffset(_, _)
BufferOffset(images_data, i) ==
    IF i = 1 THEN 0
    ELSE BufferOffset(images_data, i - 1) + get_data_size(images_data[i - 1])

\* `offset` of the loop that fills the staging buffer when it reaches image i:
\* offset += image_data.data.len() after each image.
RECURSIVE StagingOffset(_, _)
StagingOffset(images_data, i) ==
    IF i = 1 THEN 0
    ELSE StagingOffset(images_data, i - 1) + images_data[i - 1].data_len

\* The three commands the closure records for image i.
ImageCommands(images_data, i) ==
    <<[op |-> "vkCmdPipelineBarrier", image |-> i,
       oldLayout |-> "UNDEFINED", newLayout |-> "TRANSFER_DST_OPTIMAL"],
      [op |-> "vkCmdCopyBufferToImage", image |-> i,
       bufferOffset |-> BufferOffset(images_data, i),
       width |-> images_data[i].width, height |-> images_data[i].height,
       dstImageLayout |-> "TRANSFER_DST_OPTIMAL"],
      [op |-> "vkCmdPipelineBarrier", image |-> i,
       oldLayout |-> "TRANSFER_DST_OPTIMAL", newLayout |-> "SHADER_READ_ONLY_OPTIMAL"]>>

\* for (i, image) in images.iter().enumerate() { .. }: images 1 .. n
RECURSIVE UploadCommands(_, _)
UploadCommands(images_data, n) ==
    IF n = 0 THEN <<>>
    ELSE UploadCommands(images_data, n - 1) \o ImageCommands(images_data, n)

\* The layouts of the images once the GPU has executed `commands`.
RECURSIVE ExecuteCommands(_, _)
ExecuteCommands(layout, commands) ==
    IF commands = <<>> THEN layout
    ELSE LET c == Head(commands)
         IN  ExecuteCommands(IF c.op = "vkCmdPipelineBarrier"
                             THEN [layout EXCEPT ![c.image] = c.newLayout]
                             ELSE layout,
                             Tail(commands))

\* The images after Image::new (initialLayout: VK_IMAGE_LAYOUT_UNDEFINED),
\* before the upload.
TexturesNew(images_data) ==
    [images_data |-> images_data, log |-> <<>>,
     layout |-> [i \in 1 .. Len(images_data) |-> "UNDEFINED"]]

\* How many of `count` submitted commands the GPU can have executed when
\* immediate_submit returns: none when nothing was submitted, all when
\* vkQueueWaitIdle returned success, any number when the wait failed.
CommandsDone(count, submit, wait) ==
    IF submit # "VK_SUCCESS" THEN {0}
    ELSE IF wait = "VK_SUCCESS" THEN {count}
    ELSE 0 .. count

\* The image upload of Renderer::new on the images `t`, in program order, when
\* vkQueueSubmit returns `submit`, vkQueueWaitIdle returns `wait` and the GPU
\* has executed `done` commands by the time the staging buffer is destroyed.
UploadImages(t, submit, wait, done) ==
    LET images_data == t.images_data
        n == Len(images_data)
        commands == UploadCommands(images_data, n)
    IN  [images_data |-> images_data,
         log |-> <<[op |-> "create_staging",
                    size |-> BufferOffset(images_data, n + 1)],
                   [op |-> "vkMapMemory"]>>
                 \o [i \in 1 .. n |->
                        [op |-> "copy_to_staging", source |-> i,
                         offset |-> StagingOffset(images_data, i),
                         size |-> images_data[i].data_len]]
                 \o <<[op |-> "vkUnmapMemory"]>>
                 \o immediate_submitSteps(commands, submit, wait)
                 \o <<[op |-> "destroy_staging",
                       copy_pending |-> submit = "VK_SUCCESS" /\ done < Len(commands)]>>,
         layout |-> ExecuteCommands(t.layout, SubSeq(commands, 1, done))]

\* The images of Scene::get_textures after an upload in which every call
\* succeeded.
TexturesUploaded ==
    UploadImages(TexturesNew(get_textures), "VK_SUCCESS", "VK_SUCCESS",
                 3 * Len(get_textures))

\* FrameData::new: the results of the semaphore and fence creations are not
\* looked at
FrameDataNew ==
    <<Site("vkCreateCommandPool", "frame.rs", 51, TRUE),
      Site("vkAllocateCommandBuffers", "frame.rs", 72, TRUE)>>
    \o AllocatedBufferNew
    \o <<Site("vkMapMemory", "frame.rs", 95, TRUE)>>
    \o AllocatedBufferNew
    \o <<Site("vkMapMemory", "frame.rs", 122, TRUE),
         Site("vkAllocateDescriptorSets", "descriptors.rs", 108, TRUE),
         Site("vkCreateSemaphore", "frame.rs", 200, FALSE),
         Site("vkCreateSemaphore", "frame.rs", 206, FALSE),
         Site("vkCreateFence", "frame.rs", 223, FALSE),
         Site("vkCreateFence", "frame.rs", 229, FALSE)>>

RECURSIVE Repeat(_, _)
Repeat(seq, n) == IF n = 0 THEN <<>> ELSE seq \o Repeat(seq, n - 1)

\* Renderer::new from the upload command pool to the frame slots: the upload
\* of one image through a staging buffer, then MAX_FRAMES_IN_FLIGHT FrameData.
StartupCalls ==
    <<Site("vkCreateCommandPool", "renderer.rs", 93, TRUE)>>
    \o ImageNew
    \o AllocatedBufferNew
    \o <<Site("vkMapMemory", "renderer.rs", 127, FALSE)>>
    \o immediate_submit
    \o Repeat(FrameDataNew, MAX_FRAMES_IN_FLIGHT)

\* What a call can do.  A call made after an ignored failure works on the null
\* handle or pointer the failed call left behind, which is undefined: the
\* process may die in it.
CallOutcomes(failed) ==
    {"VK_SUCCESS", "ERROR"} \cup (IF failed = {} THEN {} ELSE {"crash"})

\* Construction went through with every call successful.
DeviceReady ==
    /\ physical_device = DefaultMemory
    /\ memory_type = NoMemoryType
    /\ startup = Len(StartupCalls)
    /\ failed_calls = {}

\* ------------------------------------------------------------ Scene

\* Entity { mesh, data }: the Mesh upload_mesh returned and the ObjectData of
\* the entity (position, scale, texture_id), here a number that tells the
\* entities of a scene apart.
Entity(mesh, data) == [mesh |-> mesh, data |-> data]

\* Scene::new: entities: vec![entity1, entity2, entity3], the square and two
\* triangles.
SceneNew(square, triangle) ==
    <<Entity(square, 1), Entity(triangle, 2), Entity(triangle, 3)>>

\* The scene of Scene::new on a fresh renderer: the square (4 vertices, 6
\* indices) is uploaded at the start of both arenas and the triangle behind it.
DefaultScene ==
    SceneNew([index_count |-> 6, first_index |-> 0, vertex_offset |-> 0],
             [index_count |-> 3, first_index |-> 6, vertex_offset |-> 4])

\* ------------------------------------------------------------ Renderer::new

\* VkFenceCreateFlagBits
VK_FENCE_CREATE_SIGNALED_BIT == 1

\* fence_create_info.flags in FrameData::new, used for both fences of a slot
FenceCreateFlagsNone == VK_FENCE_CREATE_SIGNALED_BIT - VK_FENCE_CREATE_SIGNALED_BIT
FenceCreateFlags == VK_FENCE_CREATE_SIGNALED_BIT

\* Whether a fence created with `flags` starts signaled.
vkCreateFence(flags) == BitAnd(flags, VK_FENCE_CREATE_SIGNALED_BIT) # 0

\* Renderer::new on the surface `s`, but for the swapchain.
RendererNewFields(s) ==
    /\ current_frame_index = 0
    /\ in_flight_fence = [i \in Slots |-> vkCreateFence(FenceCreateFlags)]
    /\ present_fence = [i \in Slots |-> vkCreateFence(FenceCreateFlags)]
    /\ delete_queue_framebuffers = [i \in Slots |-> {}]
    /\ delete_queue_image_views = [i \in Slots |-> {}]
    /\ swapchain = 0
    /\ vertex_buffer_offset = 0
    /\ index_buffer_offset = 0
    /\ gpu_work = {}
    /\ destroyed_swapchains = DestroyedOldSwapchain(NullHandle, s.create_result)
    /\ destroyed_framebuffers = {}
    /\ destroyed_image_views = {}
    /\ freed = {}
    /\ retired = {}
    /\ draw_calls = 0
    /\ visited = <<>>
    /\ cpu_writes = <<>>
    /\ frame_log = <<>>
    /\ upload_log = <<>>
    /\ drop_log = <<>>
    /\ uploads = <<>>
    /\ staging_buffers = 0
    /\ last_upload = [panic |-> "none", calls |-> 0]
    /\ surface = s

RendererNew(s) ==
    /\ RendererNewFields(s)
    /\ pc = "idle"
    /\ swapchain_state = create_framebuffers(CreateSwapchain(s, 0, NullHandle, {}))

\* Renderer::new when the Swapchain::new it starts with panics: no renderer is
\* made, and the swapchain has nothing in it.
RendererNewPanics(s) ==
    /\ RendererNewFields(s)
    /\ pc = "panicked"
    /\ swapchain_state = [image_count |-> 0, image_views |-> <<>>, framebuffers |-> <<>>]

\* The renderer as `resumed` leaves it, before Scene::new.
Init ==
    /\ RendererNew(DefaultSurface)
    /\ created = Created
    /\ scene = DefaultScene
    /\ textures = TexturesUploaded
    /\ DeviceReady

\* ------------------------------------------------------------ draw_frame pieces

\* self.current_frame_index = (self.current_frame_index + 1) % self.frames.len()
NextFrameIndexShortCycle(i) == (i + 1) % (MAX_FRAMES_IN_FLIGHT - 1)
NextFrameIndexSkip(i) == (i + 2) % MAX_FRAMES_IN_FLIGHT
NextFrameIndex(i) == (i + 1) % MAX_FRAMES_IN_FLIGHT

\* vkWaitForFences(device, 2, [in_flight_fence, present_fence], VK_TRUE, u64::MAX)
\* returns once both fences of the slot are signaled.
WaitForFencesInFlightOnly(slot) == in_flight_fence[slot]
WaitForFencesNone(slot) == TRUE
WaitForFencesEither(slot) == in_flight_fence[slot] \/ present_fence[slot]
WaitForFences(slot) == in_flight_fence[slot] /\ present_fence[slot]

\* The slots whose deletion queues draw_frame drains: the current one.
DrainedSlotsAll(cur) == Slots
DrainedSlotsNone(cur) == {}
DrainedSlots(cur) == {cur}

\* resize: let frame = &mut self.frames[self.current_frame_index]
RetireSlotNext(cur) == (cur + 1) % MAX_FRAMES_IN_FLIGHT
RetireSlot(cur) == cur

\* GPU work of a slot that has not completed.
PendingOf(work, slot) == {j \in work : j.slot = slot}

\* The draw_frame calls whose batch or present has not completed.
FramesInFlight(work) == {j.call : j \in work}

\* Presents queued on a swapchain handle that have not completed.
PendingPresentsOn(work, handle) ==
    {j \in work : j.kind = "present" /\ j.swapchain = handle}

\* Swapchain::new with old_swapchain /= null: the new handle is created and the
\* old one destroyed at once.  Recorded with the presents pending on it then.
SwapchainNew(old) == old + 1

\* resize, as a change of (delete queue of framebuffers or views, swapchain).
\* How the resize was triggered and the call count are kept with the entry.
\* frame.delete_queue_framebuffers.extend_from_slice(&self.swapchain.framebuffers),
\* and the same for the image views
ResizeQueueReplace(queue, cur, sc, calls, trigger) ==
    [queue EXCEPT ![RetireSlot(cur)] =
        {[swapchain |-> sc, pushed_slot |-> cur,
          pushed_at |-> calls, trigger |-> trigger]}]
ResizeQueue(queue, cur, sc, calls, trigger) ==
    [queue EXCEPT ![RetireSlot(cur)] =
        @ \cup {[swapchain |-> sc, pushed_slot |-> cur,
                 pushed_at |-> calls, trigger |-> trigger]}]

Retired(sc, work) ==
    {[swapchain |-> sc,
      pending_presents |-> {j.slot : j \in PendingPresentsOn(work, sc)}]}

\* ------------------------------------------------------------ GPU side

\* A batch submitted to the graphics queue (kind "render") or a present queued
\* on the present queue (kind "present") by draw_frame call number `call`.
\* `fence` is the slot whose fence the operation signals on completion.
\* `swapchain` is the swapchain whose framebuffer the batch renders into, or on
\* which the present is queued (the framebuffers and views of one swapchain are
\* retired and destroyed together, so the image index is not kept).
Job(kind, slot, sc, call, fence) ==
    [kind |-> kind, slot |-> slot, swapchain |-> sc, call |-> call, fence |-> fence]

\* vkQueueSubmit(graphics_queue, 1, &submit_info, frames[cur].in_flight_fence)
SubmitFenceNext(cur) == NextFrameIndex(cur)
SubmitFence(cur) == cur

\* VkSwapchainPresentFenceInfoEXT { pFences: [frames[cur].present_fence] }
PresentFence(cur) == cur

Signal(fence, f) == [fence EXCEPT ![f] = TRUE]

\* The GPU finishes a submitted batch and signals its fence.  A panic aborts the
\* process: nothing of the renderer is observed after it.
GpuCompleteRender ==
    \E j \in gpu_work :
        /\ pc # "panicked"
        /\ j.kind = "render"
        /\ gpu_work' = gpu_work \ {j}
        /\ in_flight_fence' = Signal(in_flight_fence, j.fence)
        /\ UNCHANGED <<current_frame_index, present_fence, delete_queue_framebuffers,
                       delete_queue_image_views, swapchain, pc, destroyed_swapchains,
                       destroyed_framebuffers, destroyed_image_views, freed, retired,
                       draw_calls, visited, cpu_writes>>
        /\ UNCHANGED arena_vars
        /\ UNCHANGED <<app_vars, swapchain_vars, device_vars, log_vars>>

\* The present `j` waits on the render-finished semaphore of its frame, which
\* the batch of that frame signals when it completes.
PresentMayExecuteAtOnce(j, work) == TRUE
PresentMayExecute(j, work) ==
    ~ \E r \in work : r.kind = "render" /\ r.call = j.call

\* The present engine finishes a queued present and signals its fence.  The
\* present waits on the render-finished semaphore of the same frame.
GpuCompletePresent ==
    \E j \in gpu_work :
        /\ pc # "panicked"
        /\ j.kind = "present"
        /\ PresentMayExecute(j, gpu_work)
        /\ gpu_work' = gpu_work \ {j}
        /\ present_fence' = Signal(present_fence, j.fence)
        /\ UNCHANGED <<current_frame_index, in_flight_fence, delete_queue_framebuffers,
                       delete_queue_image_views, swapchain, pc, destroyed_swapchains,
                       destroyed_framebuffers, destroyed_image_views, freed, retired,
                       draw_calls, visited, cpu_writes>>
        /\ UNCHANGED arena_vars
        /\ UNCHANGED <<app_vars, swapchain_vars, device_vars, log_vars>>

\* ------------------------------------------------------------ Renderer::resize

\* `resizes` caps the number of swapchains a run creates; `surfaces` is what
\* the surface and the window may report to Swapchain::new.
resize(qfb, qiv, work, trigger, resizes, surfaces) ==
    /\ swapchain < resizes
    /\ delete_queue_framebuffers' =
           ResizeQueue(qfb, current_frame_index, swapchain, draw_calls, trigger)
    /\ delete_queue_image_views' =
           ResizeQueue(qiv, current_frame_index, swapchain, draw_calls, trigger)
    /\ swapchain' = SwapchainNew(swapchain)
    /\ retired' = Retired(swapchain, work)
    /\ \E s \in surfaces :
          /\ destroyed_swapchains' =
                 destroyed_swapchains \cup DestroyedOldSwapchain(swapchain, s.create_result)
          /\ swapchain_state' =
                 create_framebuffers(CreateSwapchain(s, SwapchainNew(swapchain), swapchain,
                                                     PinnedFormat(swapchain_state)))
          /\ surface' = s

\* What a handler that does not call resize leaves alone.
NoResize == UNCHANGED <<swapchain, destroyed_swapchains, retired, swapchain_state, surface>>

\* if size.width == 0 || size.height == 0 { return; }
MinimizedBoth(width, height) == width = 0 /\ height = 0
Minimized(width, height) == width = 0 \/ height = 0

\* if let (Some(..), ..) = (self.renderer.as_mut(), ..): the fields the handler needs.
ReadyAlways(needed) == TRUE
Ready(needed) == needed \subseteq created

\* WindowEvent::Resized(size): zero-sized (minimized) windows are skipped, and
\* nothing is done before the renderer, the instance and the window exist.
Resized(width, height, resizes, surfaces) ==
    /\ IF Minimized(width, height) \/ ~Ready({"renderer", "instance", "window"})
       THEN /\ UNCHANGED <<delete_queue_framebuffers, delete_queue_image_views>>
            /\ NoResize
       ELSE resize(delete_queue_framebuffers, delete_queue_image_views,
                   gpu_work, "window", resizes, surfaces)
    /\ UNCHANGED <<current_frame_index, in_flight_fence, present_fence, pc, gpu_work,
                   destroyed_framebuffers, destroyed_image_views, freed, draw_calls,
                   visited, cpu_writes>>
    /\ UNCHANGED arena_vars
    /\ UNCHANGED <<app_vars, device_vars, log_vars>>

WindowResized(resizes, surfaces) ==
    /\ pc = "idle"
    /\ \E width \in Widths, height \in Heights : Resized(width, height, resizes, surfaces)

\* The results of vkCreateSwapchainKHR the code tells apart.
CreateResults == {"VK_SUCCESS", "ERROR"}

\* WindowEvent::Resized with a non-zero size, when vkCreateSwapchainKHR fails in
\* the Swapchain::new that resize calls: the deletion queues were extended,
\* Swapchain::new panics before it destroys anything.
ResizedPanics(resizes, results) ==
    /\ pc = "idle"
    /\ Ready({"renderer", "instance", "window"})
    /\ swapchain < resizes
    /\ \E width \in Widths, height \in Heights, result \in results :
          /\ ~Minimized(width, height)
          /\ result # "VK_SUCCESS"
          /\ destroyed_swapchains' =
                 destroyed_swapchains \cup DestroyedOldSwapchain(swapchain, result)
          /\ surface' = [surface EXCEPT !.create_result = result]
    /\ delete_queue_framebuffers' =
           ResizeQueue(delete_queue_framebuffers, current_frame_index, swapchain,
                       draw_calls, "window")
    /\ delete_queue_image_views' =
           ResizeQueue(delete_queue_image_views, current_frame_index, swapchain,
                       draw_calls, "window")
    /\ pc' = "panicked"
    /\ UNCHANGED <<swapchain, retired, swapchain_state>>
    /\ UNCHANGED <<current_frame_index, in_flight_fence, present_fence, gpu_work,
                   destroyed_framebuffers, destroyed_image_views, freed, draw_calls,
                   visited, cpu_writes>>
    /\ UNCHANGED arena_vars
    /\ UNCHANGED <<app_vars, device_vars, log_vars>>

\* ------------------------------------------------------------ Renderer::draw_frame

\* WindowEvent::RedrawRequested calls draw_frame once everything `resumed`
\* creates exists.  First statement of draw_frame; the call then blocks in
\* vkWaitForFences.  `draws` caps the number of calls of a run.
DrawFrameEnter(draws) ==
    /\ pc = "idle"
    /\ Ready({"renderer", "scene", "instance", "window", "last_frame_time"})
    /\ draw_calls < draws
    /\ current_frame_index' = NextFrameIndex(current_frame_index)
    /\ draw_calls' = draw_calls + 1
    /\ pc' = "wait"
    /\ UNCHANGED <<in_flight_fence, present_fence, delete_queue_framebuffers,
                   delete_queue_image_views, swapchain, gpu_work, destroyed_swapchains,
                   destroyed_framebuffers, destroyed_image_views, freed, retired,
                   visited, cpu_writes>>
    /\ UNCHANGED arena_vars
    /\ UNCHANGED <<app_vars, swapchain_vars, device_vars, log_vars>>

\* What the drain of the visited slot destroys, with the GPU work that still
\* references the destroyed objects at that moment.
Drained(queue, cur) == UNION {queue[s] : s \in DrainedSlots(cur)}

Freed(queue, cur, calls, work) ==
    {[swapchain |-> e.swapchain, pushed_slot |-> e.pushed_slot,
      pushed_at |-> e.pushed_at, trigger |-> e.trigger,
      freed_slot |-> cur, freed_at |-> calls,
      in_use |-> {j.slot : j \in {w \in work : w.swapchain = e.swapchain}}] :
        e \in Drained(queue, cur)}

\* self.frames[..].delete_queue_framebuffers.clear() / delete_queue_image_views.clear()
DrainKeep(queue, cur) == queue
Drain(queue, cur) ==
    [s \in Slots |-> IF s \in DrainedSlots(cur) THEN {} ELSE queue[s]]

\* else if result != VK_SUCCESS && result != VK_SUBOPTIMAL_KHR { panic!(..) }
AcquiredSuccessOnly(result) == result = "VK_SUCCESS"
Acquired(result) == result \in {"VK_SUCCESS", "VK_SUBOPTIMAL_KHR"}

\* vkResetFences on the slot's fence happens only after a successful acquire.
FencesAfterAcquireAlwaysReset(fence, cur, result) == [fence EXCEPT ![cur] = FALSE]
FencesAfterAcquire(fence, cur, result) ==
    IF Acquired(result) THEN [fence EXCEPT ![cur] = FALSE] ELSE fence

\* A CPU access to a resource of slot `cur`, with the fence state at that moment.
Access(op, cur, inflight, present, work) ==
    [op |-> op, slot |-> cur, in_flight |-> inflight[cur],
     present |-> present[cur], gpu_pending |-> PendingOf(work, cur) # {},
     frames_in_flight |-> FramesInFlight(work)]

\* if result == VK_ERROR_OUT_OF_DATE_KHR || result == VK_SUBOPTIMAL_KHR { self.resize(..) }
NeedsResizeOutOfDateOnly(result) == result = "VK_ERROR_OUT_OF_DATE_KHR"
NeedsResize(result) == result \in {"VK_ERROR_OUT_OF_DATE_KHR", "VK_SUBOPTIMAL_KHR"}

\* frames[cur].image_available_semaphore and frames[cur].render_finished_semaphore
ImageAvailableSemaphore(cur) == [semaphore |-> "image_available", slot |-> cur]
RenderFinishedSemaphore(cur) == [semaphore |-> "render_finished", slot |-> cur]

\* VkSubmitInfo { pWaitSemaphores: [image_available_semaphore],
\*     pSignalSemaphores: [render_finished_semaphore] } and
\* VkPresentInfoKHR { pWaitSemaphores: [render_finished_semaphore] }:
\* the pending jobs that still have to wait on, or to signal, `semaphore`.
PendingWaits(work, semaphore) ==
    {j \in work : \/ j.kind = "render" /\ semaphore = ImageAvailableSemaphore(j.slot)
                  \/ j.kind = "present" /\ semaphore = RenderFinishedSemaphore(j.slot)}
PendingSignals(work, semaphore) ==
    {j \in work : j.kind = "render" /\ semaphore = RenderFinishedSemaphore(j.slot)}

\* for (i, entity) in scene.entities.iter().enumerate() {
\*     if i >= MAX_OBJECT { break; }  gpu_slice[i] = entity.data; }
\* The elements of the slot's storage buffer the loop writes, and what it
\* writes there.
WrittenObjectsShifted(entities) ==
    [i \in 1 .. Min(Len(entities), MAX_OBJECT) |-> entities[i].data]
WrittenObjects(entities) ==
    [i \in 0 .. (Min(Len(entities), MAX_OBJECT) - 1) |-> entities[i + 1].data]

\* let mut object_index: u32 = 0;
\* for entity in &scene.entities { vkCmdPushConstants(.., &object_index);
\*     object_index += 1;  vkCmdDrawIndexed(.., entity.mesh.index_count, 1,
\*     entity.mesh.first_index, entity.mesh.vertex_offset, 0); }
RecordedDrawsCountFromOne(entities) ==
    [k \in 1 .. Len(entities) |->
        [push_constant |-> k,
         index_count |-> entities[k].mesh.index_count,
         first_index |-> entities[k].mesh.first_index,
         vertex_offset |-> entities[k].mesh.vertex_offset]]
RecordedDraws(entities) ==
    [k \in 1 .. Len(entities) |->
        [push_constant |-> k - 1,
         index_count |-> entities[k].mesh.index_count,
         first_index |-> entities[k].mesh.first_index,
         vertex_offset |-> entities[k].mesh.vertex_offset]]

\* What draw_frame does on slot `cur`, in program order, from the return of
\* vkWaitForFences: up to the acquire, and from there when the acquire gave
\* an image.
StepsToAcquire(cur, entities) ==
    <<[op |-> "vkWaitForFences", slot |-> cur],
      [op |-> "drain", slot |-> cur],
      [op |-> "write_uniform", slot |-> cur],
      [op |-> "write_storage", slot |-> cur, written |-> WrittenObjects(entities)],
      [op |-> "vkAcquireNextImageKHR", slot |-> cur,
       signal |-> ImageAvailableSemaphore(cur)]>>

StepsResetFences(cur) ==
    <<[op |-> "vkResetFences", slot |-> cur, fence |-> "in_flight_fence"],
      [op |-> "vkResetFences", slot |-> cur, fence |-> "present_fence"]>>

StepsToPresent(cur, entities) ==
    <<[op |-> "vkResetCommandPool", slot |-> cur],
      [op |-> "record", slot |-> cur, draws |-> RecordedDraws(entities)],
      [op |-> "vkQueueSubmit", slot |-> cur,
       wait |-> ImageAvailableSemaphore(cur),
       signal |-> RenderFinishedSemaphore(cur),
       fence |-> [fence |-> "in_flight_fence", slot |-> SubmitFence(cur)]],
      [op |-> "vkQueuePresentKHR", slot |-> cur,
       wait |-> RenderFinishedSemaphore(cur),
       fence |-> [fence |-> "present_fence", slot |-> PresentFence(cur)]]>>

FrameStepsResetBeforeAcquire(cur, entities, acquire, present) ==
    LET to_acquire == StepsToAcquire(cur, entities)
        before == SubSeq(to_acquire, 1, Len(to_acquire) - 1) \o StepsResetFences(cur)
                      \o <<to_acquire[Len(to_acquire)]>>
    IN  IF acquire = "VK_ERROR_OUT_OF_DATE_KHR"
        THEN before \o <<[op |-> "resize", slot |-> cur]>>
        ELSE IF ~Acquired(acquire) THEN before
        ELSE before \o StepsToPresent(cur, entities)
                 \o (IF NeedsResize(present) THEN <<[op |-> "resize", slot |-> cur]>>
                     ELSE <<>>)
FrameSteps(cur, entities, acquire, present) ==
    IF acquire = "VK_ERROR_OUT_OF_DATE_KHR"
    THEN StepsToAcquire(cur, entities) \o <<[op |-> "resize", slot |-> cur]>>
    ELSE IF ~Acquired(acquire) THEN StepsToAcquire(cur, entities)
    ELSE StepsToAcquire(cur, entities) \o StepsResetFences(cur)
             \o StepsToPresent(cur, entities)
             \o (IF NeedsResize(present) THEN <<[op |-> "resize", slot |-> cur]>>
                 ELSE <<>>)

\* VkRenderPassBeginInfo { framebuffer: self.swapchain.framebuffers[image_index], .. }:
\* the image index is the one the acquire returned, so the framebuffer bound
\* is one of these (each kept as the swapchain of its image view and its size).
BindableFramebuffers(sc) ==
    {[swapchain |-> sc.framebuffers[k].attachment.swapchain,
      width |-> sc.framebuffers[k].width, height |-> sc.framebuffers[k].height] :
        k \in 1 .. Len(sc.framebuffers)}

\* renderArea: VkRect2D { extent: self.swapchain.extent }, the VkViewport
\* (width and height: self.swapchain.extent) and the scissor VkRect2D of the
\* recorded command buffer.
RecordTargetsFirstExtent(sc) ==
    [framebuffers |-> BindableFramebuffers(sc),
     renderArea |-> sc.extent,
     viewport |-> DefaultSurface.capabilities.currentExtent,
     scissor |-> DefaultSurface.capabilities.currentExtent]
RecordTargets(sc) ==
    [framebuffers |-> BindableFramebuffers(sc),
     renderArea |-> sc.extent,
     viewport |-> [width |-> sc.extent.width, height |-> sc.extent.height],
     scissor |-> [width |-> sc.extent.width, height |-> sc.extent.height]]

\* The steps of a draw_frame call with the swapchain each of them names:
\* vkAcquireNextImageKHR(device, self.swapchain.handle, ..), the swapchain of
\* the framebuffers that can be bound, and VkPresentInfoKHR { pSwapchains:
\* [self.swapchain.handle] }.  With `sized`, the sizes recorded are kept too.
OnSwapchain(steps, handle, sc, sized) ==
    [k \in DOMAIN steps |->
        IF steps[k].op \in {"vkAcquireNextImageKHR", "vkQueuePresentKHR"}
        THEN steps[k] @@ [swapchain |-> handle]
        ELSE IF steps[k].op = "record"
        THEN steps[k] @@ [bound |-> {fb.swapchain : fb \in BindableFramebuffers(sc)}]
                      @@ (IF sized THEN [targets |-> RecordTargets(sc)] ELSE <<>>)
        ELSE steps[k]]

\* draw_frame from the return of vkWaitForFences to its end, when
\* vkAcquireNextImageKHR returns `acquire` and vkQueuePresentKHR, if it is
\* reached, returns `present`; `sized`: whether frame_log keeps the sizes the
\* command buffer was recorded with.
DrawFrame(acquire, present, resizes, surfaces, sized) ==
    LET cur == current_frame_index
        qfb == Drain(delete_queue_framebuffers, cur)
        qiv == Drain(delete_queue_image_views, cur)
        inflight == FencesAfterAcquire(in_flight_fence, cur, acquire)
        presentf == FencesAfterAcquire(present_fence, cur, acquire)
        render == Job("render", cur, swapchain, draw_calls, SubmitFence(cur))
        show == Job("present", cur, swapchain, draw_calls, PresentFence(cur))
        writes == <<Access("write_uniform", cur, in_flight_fence, present_fence, gpu_work),
                    Access("write_storage", cur, in_flight_fence, present_fence, gpu_work)>>
        records == <<Access("reset_command_pool", cur, inflight, presentf, gpu_work),
                     Access("record", cur, inflight, presentf, gpu_work)>>
    IN
    /\ destroyed_framebuffers' = destroyed_framebuffers \cup
           {e.swapchain : e \in Drained(delete_queue_framebuffers, cur)}
    /\ destroyed_image_views' = destroyed_image_views \cup
           {e.swapchain : e \in Drained(delete_queue_image_views, cur)}
    /\ freed' = Freed(delete_queue_framebuffers, cur, draw_calls, gpu_work)
                  \cup Freed(delete_queue_image_views, cur, draw_calls, gpu_work)
    /\ visited' = Append(visited, cur)
    /\ frame_log' = OnSwapchain(FrameSteps(cur, scene, acquire, present),
                                swapchain, swapchain_state, sized)
    /\ UNCHANGED <<upload_log, textures, drop_log>>
    /\ in_flight_fence' = inflight
    /\ present_fence' = presentf
    /\ IF acquire = "VK_ERROR_OUT_OF_DATE_KHR" THEN
           /\ resize(qfb, qiv, gpu_work, "acquire", resizes, surfaces)
           /\ cpu_writes' = writes
           /\ pc' = "idle"
           /\ UNCHANGED gpu_work
       ELSE IF ~Acquired(acquire) THEN
           /\ delete_queue_framebuffers' = qfb
           /\ delete_queue_image_views' = qiv
           /\ cpu_writes' = writes
           /\ pc' = "panicked"
           /\ UNCHANGED gpu_work
           /\ NoResize
       ELSE
           /\ cpu_writes' = writes \o records
           /\ IF NeedsResize(present) THEN
                  /\ gpu_work' = gpu_work \cup {render, show}
                  /\ pc' = "idle"
                  /\ resize(qfb, qiv, gpu_work \cup {render, show}, "present",
                            resizes, surfaces)
              ELSE IF present # "VK_SUCCESS" THEN
                  /\ gpu_work' = gpu_work \cup {render}
                  /\ delete_queue_framebuffers' = qfb
                  /\ delete_queue_image_views' = qiv
                  /\ pc' = "panicked"
                  /\ NoResize
              ELSE
                  /\ gpu_work' = gpu_work \cup {render, show}
                  /\ delete_queue_framebuffers' = qfb
                  /\ delete_queue_image_views' = qiv
                  /\ pc' = "idle"
                  /\ NoResize
    /\ UNCHANGED <<current_frame_index, draw_calls>>
    /\ UNCHANGED arena_vars
    /\ UNCHANGED <<app_vars, device_vars>>

draw_frame(acquire, present, resizes, surfaces) ==
    DrawFrame(acquire, present, resizes, surfaces, FALSE)

\* The thread leaves vkWaitForFences once both fences of the slot are signaled.
DrawFrameProceedSized(resizes, surfaces) ==
    /\ pc = "wait"
    /\ WaitForFences(current_frame_index)
    /\ \E acquire \in VkResults, present \in VkResults :
          DrawFrame(acquire, present, resizes, surfaces, TRUE)

DrawFrameProceed(resizes, surfaces) ==
    /\ pc = "wait"
    /\ WaitForFences(current_frame_index)
    /\ \E acquire \in VkResults, present \in VkResults :
          draw_frame(acquire, present, resizes, surfaces)

\* ------------------------------------------------------------ specification

Next ==
    \/ DrawFrameEnter(MaxDraws)
    \/ DrawFrameProceed(MaxResizes, {DefaultSurface})
    \/ WindowResized(MaxResizes, {DefaultSurface})
    \/ GpuCompleteRender
    \/ GpuCompletePresent

Spec == Init /\ [][Next]_vars

\* ------------------------------------------------------------ Renderer::upload_mesh

\* upload_mesh on cursors (voff, ioff) with `vertices` vertices and `indices`
\* indices: the panic it ends in ("none" when it returns), the staging buffers
\* it creates, the copies it submits, the Mesh it returns and the cursors it
\* leaves.  Sizes stay below 2^28, so the u64 arithmetic and the casts of the
\* Mesh fields to u32 / i32 are exact.
upload_meshIndexCheckLate(voff, ioff, vertices, indices) ==
    LET vertex_buffer_size == vertices * VERTEX_SIZE
        index_buffer_size == indices * INDEX_SIZE
    IN  IF voff + vertex_buffer_size > GLOBAL_BUFFER_SIZE THEN
            [panic |-> "Global Vertex Buffer Full", staging |-> 0, copies |-> {},
             mesh |-> {}, vertex_buffer_offset |-> voff, index_buffer_offset |-> ioff]
        ELSE IF ioff + index_buffer_size > GLOBAL_BUFFER_SIZE THEN
            [panic |-> "Global Index Buffer Full", staging |-> 0, copies |-> {},
             mesh |-> {}, vertex_buffer_offset |-> voff + vertex_buffer_size,
             index_buffer_offset |-> ioff]
        ELSE
            [panic |-> "none", staging |-> 1,
             copies |-> {[dst |-> "vertex_buffer", srcOffset |-> 0,
                          dstOffset |-> voff, size |-> vertex_buffer_size],
                         [dst |-> "index_buffer", srcOffset |-> vertex_buffer_size,
                          dstOffset |-> ioff, size |-> index_buffer_size]},
             mesh |-> {[index_count |-> indices,
                        first_index |-> ioff \div INDEX_SIZE,
                        vertex_offset |-> voff \div VERTEX_SIZE]},
             vertex_buffer_offset |-> voff + vertex_buffer_size,
             index_buffer_offset |-> ioff + index_buffer_size]

upload_meshNoAdvance(voff, ioff, vertices, indices) ==
    LET vertex_buffer_size == vertices * VERTEX_SIZE
        index_buffer_size == indices * INDEX_SIZE
    IN  IF voff + vertex_buffer_size > GLOBAL_BUFFER_SIZE THEN
            [panic |-> "Global Vertex Buffer Full", staging |-> 0, copies |-> {},
             mesh |-> {}, vertex_buffer_offset |-> voff, index_buffer_offset |-> ioff]
        ELSE IF ioff + index_buffer_size > GLOBAL_BUFFER_SIZE THEN
            [panic |-> "Global Index Buffer Full", staging |-> 0, copies |-> {},
             mesh |-> {}, vertex_buffer_offset |-> voff, index_buffer_offset |-> ioff]
        ELSE
            [panic |-> "none", staging |-> 1,
             copies |-> {[dst |-> "vertex_buffer", srcOffset |-> 0,
                          dstOffset |-> voff, size |-> vertex_buffer_size],
                         [dst |-> "index_buffer", srcOffset |-> vertex_buffer_size,
                          dstOffset |-> ioff, size |-> index_buffer_size]},
             mesh |-> {[index_count |-> indices,
                        first_index |-> ioff \div INDEX_SIZE,
                        vertex_offset |-> voff \div VERTEX_SIZE]},
             vertex_buffer_offset |-> voff,
             index_buffer_offset |-> ioff + index_buffer_size]

upload_meshNoVertexCheck(voff, ioff, vertices, indices) ==
    LET vertex_buffer_size == vertices * VERTEX_SIZE
        index_buffer_size == indices * INDEX_SIZE
    IN  IF ioff + index_buffer_size > GLOBAL_BUFFER_SIZE THEN
            [panic |-> "Global Index Buffer Full", staging |-> 0, copies |-> {},
             mesh |-> {}, vertex_buffer_offset |-> voff, index_buffer_offset |-> ioff]
        ELSE
            [panic |-> "none", staging |-> 1,
             copies |-> {[dst |-> "vertex_buffer", srcOffset |-> 0,
                          dstOffset |-> voff, size |-> vertex_buffer_size],
                         [dst |-> "index_buffer", srcOffset |-> vertex_buffer_size,
                          dstOffset |-> ioff, size |-> index_buffer_size]},
             mesh |-> {[index_count |-> indices,
                        first_index |-> ioff \div INDEX_SIZE,
                        vertex_offset |-> voff \div VERTEX_SIZE]},
             vertex_buffer_offset |-> voff + vertex_buffer_size,
             index_buffer_offset |-> ioff + index_buffer_size]

upload_mesh(voff, ioff, vertices, indices) ==
    LET vertex_buffer_size == vertices * VERTEX_SIZE
        index_buffer_size == indices * INDEX_SIZE
    IN  IF voff + vertex_buffer_size > GLOBAL_BUFFER_SIZE THEN
            [panic |-> "Global Vertex Buffer Full", staging |-> 0, copies |-> {},
             mesh |-> {}, vertex_buffer_offset |-> voff, index_buffer_offset |-> ioff]
        ELSE IF ioff + index_buffer_size > GLOBAL_BUFFER_SIZE THEN
            [panic |-> "Global Index Buffer Full", staging |-> 0, copies |-> {},
             mesh |-> {}, vertex_buffer_offset |-> voff, index_buffer_offset |-> ioff]
        ELSE
            [panic |-> "none", staging |-> 1,
             copies |-> {[dst |-> "vertex_buffer", srcOffset |-> 0,
                          dstOffset |-> voff, size |-> vertex_buffer_size],
                         [dst |-> "index_buffer", srcOffset |-> vertex_buffer_size,
                          dstOffset |-> ioff, size |-> index_buffer_size]},
             mesh |-> {[index_count |-> indices,
                        first_index |-> ioff \div INDEX_SIZE,
                        vertex_offset |-> voff \div VERTEX_SIZE]},
             vertex_buffer_offset |-> voff + vertex_buffer_size,
             index_buffer_offset |-> ioff + index_buffer_size]

\* What upload_mesh does, in program order, on cursors (voff, ioff) with
\* `vertices` vertices and `indices` indices, when vkQueueSubmit returns
\* `submit`, vkQueueWaitIdle returns `wait` and the copies are still pending
\* on the queue afterwards or not (`pending`).
UploadSteps(voff, ioff, vertices, indices, submit, wait, pending) ==
    LET vertex_buffer_size == vertices * VERTEX_SIZE
        index_buffer_size == indices * INDEX_SIZE
        checked_vertex == <<[op |-> "check_vertex_capacity"]>>
        checked_index == checked_vertex \o <<[op |-> "check_index_capacity"]>>
        copies == <<[op |-> "vkCmdCopyBuffer", dst |-> "vertex_buffer", srcOffset |-> 0,
                     dstOffset |-> voff, size |-> vertex_buffer_size],
                    [op |-> "vkCmdCopyBuffer", dst |-> "index_buffer",
                     srcOffset |-> vertex_buffer_size,
                     dstOffset |-> ioff, size |-> index_buffer_size]>>
    IN  IF voff + vertex_buffer_size > GLOBAL_BUFFER_SIZE THEN
            checked_vertex \o <<[op |-> "panic"]>>
        ELSE IF ioff + index_buffer_size > GLOBAL_BUFFER_SIZE THEN
            checked_index \o <<[op |-> "panic"]>>
        ELSE
            checked_index
                \o <<[op |-> "create_staging", size |-> vertex_buffer_size + index_buffer_size],
                      [op |-> "vkMapMemory"],
                      [op |-> "copy_vertices", offset |-> 0, size |-> vertex_buffer_size],
                      [op |-> "copy_indices", offset |-> vertex_buffer_size,
                       size |-> index_buffer_size],
                      [op |-> "vkUnmapMemory"]>>
                \o immediate_submitSteps(copies, submit, wait)
                \o <<[op |-> "destroy_staging", copy_pending |-> pending],
                      [op |-> "advance_cursors",
                       vertex_buffer_offset |-> voff + vertex_buffer_size,
                       index_buffer_offset |-> ioff + index_buffer_size]>>

\* One call of upload_mesh on the renderer.  `last_upload` keeps what the call
\* found on entry; `limit` caps the number of calls of a run; `results` are
\* the results vkQueueSubmit and vkQueueWaitIdle can return.
UploadMesh(limit, results) ==
    /\ pc = "idle"
    /\ Ready({"renderer"})
    /\ last_upload.calls < limit
    /\ \E vertices \in VertexCounts, indices \in IndexCounts :
        LET r == upload_mesh(vertex_buffer_offset, index_buffer_offset, vertices, indices)
        IN  /\ vertex_buffer_offset' = r.vertex_buffer_offset
            /\ index_buffer_offset' = r.index_buffer_offset
            /\ staging_buffers' = staging_buffers + r.staging
            /\ \E submit \in results, wait \in results :
                  \E pending \in CopyPendingAfter(submit, wait) :
                      upload_log' = UploadSteps(vertex_buffer_offset, index_buffer_offset,
                                                vertices, indices, submit, wait, pending)
            /\ uploads' = IF r.panic = "none"
                          THEN Append(uploads, [vertex_cursor |-> vertex_buffer_offset,
                                                index_cursor |-> index_buffer_offset,
                                                copies |-> r.copies, mesh |-> r.mesh])
                          ELSE uploads
            /\ last_upload' = [panic |-> r.panic, calls |-> last_upload.calls + 1,
                               vertices |-> vertices, indices |-> indices,
                               vertex_cursor |-> vertex_buffer_offset,
                               index_cursor |-> index_buffer_offset,
                               staging_buffers |-> staging_buffers,
                               submitted |-> Len(uploads)]
            /\ pc' = IF r.panic = "none" THEN "idle" ELSE "panicked"
    /\ UNCHANGED frame_vars
    /\ UNCHANGED <<app_vars, swapchain_vars, device_vars, frame_log, textures, drop_log>>

ArenaNext == UploadMesh(MaxUploads, {"VK_SUCCESS"})

ArenaSpec == Init /\ [][ArenaNext]_vars

\* ------------------------------------------------------------ ApplicationWindow

\* SQUARE_VERTICES / SQUARE_INDICES and TRIANGLE_VERTICES / TRIANGLE_INDICES.
SceneMeshes == <<[vertices |-> 4, indices |-> 6], [vertices |-> 3, indices |-> 3]>>

\* What upload_mesh call `r`, entered on cursors (voff, ioff), adds to `uploads`.
Uploaded(r, voff, ioff) ==
    [vertex_cursor |-> voff, index_cursor |-> ioff, copies |-> r.copies, mesh |-> r.mesh]

\* ApplicationHandler::resumed: the window, the instance and the renderer are
\* created once (Renderer::new uploads the textures; `results` are the results
\* vkQueueSubmit and vkQueueWaitIdle can return there), then Scene::new uploads
\* the square and the triangle (the arenas are empty then, so neither upload
\* can be rejected).
Resumed(results) ==
    /\ pc = "idle"
    /\ "window" \notin created
    /\ \E submit \in results, wait \in results :
          \E done \in CommandsDone(3 * Len(textures.images_data), submit, wait) :
              textures' = UploadImages(textures, submit, wait, done)
    /\ LET square == upload_mesh(vertex_buffer_offset, index_buffer_offset,
                                 SceneMeshes[1].vertices, SceneMeshes[1].indices)
           triangle == upload_mesh(square.vertex_buffer_offset, square.index_buffer_offset,
                                   SceneMeshes[2].vertices, SceneMeshes[2].indices)
       IN  /\ vertex_buffer_offset' = triangle.vertex_buffer_offset
           /\ index_buffer_offset' = triangle.index_buffer_offset
           /\ staging_buffers' = staging_buffers + square.staging + triangle.staging
           /\ uploads' = uploads \o
                  <<Uploaded(square, vertex_buffer_offset, index_buffer_offset),
                    Uploaded(triangle, square.vertex_buffer_offset, square.index_buffer_offset)>>
           /\ last_upload' = [panic |-> triangle.panic,
                              calls |-> last_upload.calls + Len(SceneMeshes),
                              vertices |-> SceneMeshes[2].vertices,
                              indices |-> SceneMeshes[2].indices,
                              vertex_cursor |-> square.vertex_buffer_offset,
                              index_cursor |-> square.index_buffer_offset,
                              staging_buffers |-> staging_buffers + square.staging,
                              submitted |-> Len(uploads) + 1]
           /\ scene' = SceneNew(CHOOSE mesh \in square.mesh : TRUE,
                                CHOOSE mesh \in triangle.mesh : TRUE)
           /\ upload_log' = UploadSteps(square.vertex_buffer_offset, square.index_buffer_offset,
                                        SceneMeshes[2].vertices, SceneMeshes[2].indices,
                                        "VK_SUCCESS", "VK_SUCCESS", FALSE)
    /\ created' = Created
    /\ UNCHANGED pc
    /\ UNCHANGED frame_vars
    /\ UNCHANGED <<swapchain_vars, device_vars, frame_log, drop_log>>

\* ApplicationWindow::default(): nothing is created before `resumed`.
AppInit ==
    /\ RendererNew(DefaultSurface)
    /\ created = {}
    /\ scene = <<>>
    /\ textures = TexturesNew(get_textures)
    /\ DeviceReady

\* The event loop: resumed, resize and redraw events, with the GPU running
\* alongside and further meshes uploaded between events.
AppNext ==
    \/ Resumed({"VK_SUCCESS"})
    \/ DrawFrameEnter(MaxAppDraws)
    \/ DrawFrameProceed(MaxAppResizes, {DefaultSurface})
    \/ WindowResized(MaxAppResizes, {DefaultSurface})
    \/ GpuCompleteRender
    \/ GpuCompletePresent
    \/ UploadMesh(Len(SceneMeshes) + MaxAppUploads, {"VK_SUCCESS"})

AppSpec == AppInit /\ [][AppNext]_vars

\* ------------------------------------------------------------ surface changes

\* The renderer on a surface whose capabilities, formats and window size
\* differ from one Swapchain::new to the next.  Every slot a draw_frame call of
\* these runs waits on still has its fences signaled from creation, so the
\* completion steps of the GPU are left out.
SurfaceInit ==
    /\ \E s \in Surfaces : RendererNew(s)
    /\ created = Created
    /\ scene = DefaultScene
    /\ textures = TexturesUploaded
    /\ DeviceReady

SurfaceNext ==
    \/ DrawFrameEnter(MaxSurfaceDraws)
    \/ DrawFrameProceed(MaxSurfaceResizes, Surfaces)
    \/ WindowResized(MaxSurfaceResizes, Surfaces)
    \/ ResizedPanics(MaxSurfaceResizes, CreateResults)

SurfaceSpec == SurfaceInit /\ [][SurfaceNext]_vars

\* ------------------------------------------------------------ capability negotiation

\* The lists vkGetPhysicalDeviceSurfaceFormatsKHR can leave in surface_formats:
\* the results of the count query and of the list query are not looked at, and
\* a failed count query leaves the count at 0 and the list empty.
ReportedFormatLists == FormatLists \cup {<<>>}

\* The surfaces of the negotiation runs: every list of formats and every list
\* of present modes.
NegotiationSurfaces ==
    {[DefaultSurface EXCEPT !.formats = l, !.attachment = a] :
        l \in ReportedFormatLists, a \in AttachmentFormats}
    \cup {[DefaultSurface EXCEPT !.present_modes = l] : l \in PresentModeLists}

\* `resumed` on any of these surfaces: Swapchain::new is the first thing
\* Renderer::new does, so a panic in it leaves the window and the instance,
\* and neither a renderer nor a scene.
NegotiationInit ==
    /\ \E s \in NegotiationSurfaces :
          IF choose_surface_formatPanics(s.formats, s.attachment)
          THEN /\ RendererNewPanics(s)
               /\ created = {"window", "instance"}
               /\ scene = <<>>
               /\ textures = TexturesNew(get_textures)
          ELSE /\ RendererNew(s)
               /\ created = Created
               /\ scene = DefaultScene
               /\ textures = TexturesUploaded
    /\ DeviceReady

NegotiationNext ==
    \/ DrawFrameEnter(MaxNegotiationDraws)
    \/ DrawFrameProceed(MaxNegotiationResizes, NegotiationSurfaces)
    \/ WindowResized(MaxNegotiationResizes, NegotiationSurfaces)

NegotiationSpec == NegotiationInit /\ [][NegotiationNext]_vars

\* ------------------------------------------------------------ recorded targets

\* The surfaces of the recording runs: the extent is the current extent or
\* the clamped window size, and the number of images varies.
RecordSurfaces ==
    {[DefaultSurface EXCEPT !.capabilities.currentExtent = ce, !.inner_size = sz] :
        ce \in CurrentExtents, sz \in {s \in InnerSizes : s.width = s.height}}
    \cup {[DefaultSurface EXCEPT !.capabilities.minImageCount = c.min,
                                 !.capabilities.maxImageCount = c.max,
                                 !.extra_images = c.extra] : c \in ImageCounts}

\* The renderer drawing and resizing on these surfaces, the GPU running
\* alongside; frame_log keeps the sizes each command buffer is recorded with.
RecordInit ==
    /\ \E s \in RecordSurfaces : RendererNew(s)
    /\ created = Created
    /\ scene = DefaultScene
    /\ textures = TexturesUploaded
    /\ DeviceReady

RecordNext ==
    \/ DrawFrameEnter(MaxRecordDraws)
    \/ DrawFrameProceedSized(MaxRecordResizes, RecordSurfaces)
    \/ WindowResized(MaxRecordResizes, RecordSurfaces)
    \/ GpuCompleteRender
    \/ GpuCompletePresent

RecordSpec == RecordInit /\ [][RecordNext]_vars

\* ------------------------------------------------------------ deferred deletion

\* Resized events that alternate with draw_frame calls: at most one Resized
\* event with a non-zero size between two calls.
ResizedBetweenDraws(resizes) ==
    /\ \A s \in Slots : \A e \in delete_queue_framebuffers[s] :
          ~(e.trigger = "window" /\ e.pushed_at = draw_calls)
    /\ WindowResized(resizes, {DefaultSurface})

DeletionNext ==
    \/ DrawFrameEnter(MaxDeletionDraws)
    \/ DrawFrameProceed(MaxDeletionResizes, {DefaultSurface})
    \/ ResizedBetweenDraws(MaxDeletionResizes)
    \/ GpuCompleteRender
    \/ GpuCompletePresent

\* draw_frame keeps being called (RedrawRequested asks for the next redraw),
\* the GPU and the present engine complete what was handed to them.
DeletionSpec ==
    /\ Init /\ [][DeletionNext]_vars
    /\ WF_vars(DrawFrameEnter(MaxDeletionDraws))
    /\ WF_vars(DrawFrameProceed(MaxDeletionResizes, {DefaultSurface}))
    /\ WF_vars(GpuCompleteRender)
    /\ WF_vars(GpuCompletePresent)

\* ------------------------------------------------------------ memory types

\* AllocatedBuffer::new and Image::new ask find_memory_type for a memory type.
FindMemoryType ==
    /\ pc = "idle"
    /\ \E type_filter \in TypeFilters, properties \in RequestedProperties :
          LET r == find_memory_type(physical_device, type_filter, properties)
          IN  /\ memory_type' = [called |-> TRUE, type_filter |-> type_filter,
                                 properties |-> properties, index |-> r.index,
                                 panic |-> r.panic]
              /\ pc' = IF r.panic = "none" THEN pc ELSE "panicked"
    /\ UNCHANGED <<physical_device, startup, failed_calls>>
    /\ UNCHANGED <<current_frame_index, in_flight_fence, present_fence,
                   delete_queue_framebuffers, delete_queue_image_views, swapchain,
                   gpu_work, destroyed_swapchains, destroyed_framebuffers,
                   destroyed_image_views, freed, retired, draw_calls, visited, cpu_writes>>
    /\ UNCHANGED <<arena_vars, app_vars, swapchain_vars, log_vars>>

MemoryInit ==
    /\ RendererNew(DefaultSurface)
    /\ created = Created
    /\ scene = DefaultScene
    /\ textures = TexturesUploaded
    /\ physical_device \in MemoryTables
    /\ memory_type = NoMemoryType
    /\ startup = Len(StartupCalls)
    /\ failed_calls = {}

MemoryNext == FindMemoryType

MemorySpec == MemoryInit /\ [][MemoryNext]_vars

\* ------------------------------------------------------------ startup

\* The next Vulkan call of Renderer::new returns.  A non-success code panics
\* where the code checks the result; where it does not, Renderer::new goes on
\* to its next call.
StartupCall ==
    /\ pc = "idle"
    /\ startup < Len(StartupCalls)
    /\ LET site == StartupCalls[startup + 1]
       IN  \E result \in CallOutcomes(failed_calls) :
              /\ startup' = startup + 1
              /\ failed_calls' = IF result = "ERROR" THEN failed_calls \cup {site}
                                 ELSE failed_calls
              /\ pc' = IF result = "crash" THEN "crashed"
                       ELSE IF result = "ERROR" /\ site.checked THEN "panicked"
                       ELSE pc
    /\ UNCHANGED <<physical_device, memory_type>>
    /\ UNCHANGED <<current_frame_index, in_flight_fence, present_fence,
                   delete_queue_framebuffers, delete_queue_image_views, swapchain,
                   gpu_work, destroyed_swapchains, destroyed_framebuffers,
                   destroyed_image_views, freed, retired, draw_calls, visited, cpu_writes>>
    /\ UNCHANGED <<arena_vars, app_vars, swapchain_vars, log_vars>>

\* Renderer::new has created the swapchain, the render pass and the pipeline;
\* the fields of the Renderer it will return hold the values it gives them.
StartupInit ==
    /\ RendererNew(DefaultSurface)
    /\ created = {}
    /\ scene = <<>>
    /\ textures = TexturesNew(get_textures)
    /\ physical_device = DefaultMemory
    /\ memory_type = NoMemoryType
    /\ startup = 0
    /\ failed_calls = {}

StartupNext == StartupCall

StartupSpec == StartupInit /\ [][StartupNext]_vars

\* ------------------------------------------------------------ fairness

\* The GPU and the present engine complete what was handed to them, and a
\* thread blocked in vkWaitForFences resumes once both fences are signaled.
FairNext ==
    \/ DrawFrameEnter(MaxFairDraws)
    \/ DrawFrameProceed(MaxFairResizes, {DefaultSurface})
    \/ WindowResized(MaxFairResizes, {DefaultSurface})
    \/ GpuCompleteRender
    \/ GpuCompletePresent

FairSpec ==
    /\ Init /\ [][FairNext]_vars
    /\ WF_vars(GpuCompleteRender)
    /\ WF_vars(GpuCompletePresent)
    /\ WF_vars(DrawFrameProceed(MaxFairResizes, {DefaultSurface}))

\* ------------------------------------------------------------ properties

\* C1: after K calls of draw_frame, interleaved in any way with resizes and
\* including calls that return early on an out-of-date acquire,
\* current_frame_index = K mod 3; a resize (a change of swapchain) leaves
\* current_frame_index as it was.
C1_RoundRobin ==
    /\ [](current_frame_index = draw_calls % MAX_FRAMES_IN_FLIGHT)
    /\ [][swapchain' # swapchain => current_frame_index' = current_frame_index]_vars

\* Five calls made, at least one resize, and the latest call returned early
\* after an out-of-date acquire (it wrote the slot's buffers and recorded nothing).
C1_Witness ==
    /\ draw_calls = 5
    /\ swapchain > 0
    /\ pc = "idle"
    /\ Len(cpu_writes) = 2

\* C2 as stated: the k-th of the first 10 draw_frame calls uses slot
\* 0,1,2,0,1,2,0,1,2,0.
C2_SlotsFromZero ==
    \A k \in 1 .. Len(visited) :
        k <= 10 => visited[k] = <<0, 1, 2, 0, 1, 2, 0, 1, 2, 0>>[k]

\* C2 amended: the k-th of the first 10 draw_frame calls waits on, writes to,
\* records and submits with slot 1,2,0,1,2,0,1,2,0,1: the index is advanced
\* before the slot is used.
C2_SlotsFromOne ==
    /\ \A k \in 1 .. Len(visited) :
          k <= 10 => visited[k] = <<1, 2, 0, 1, 2, 0, 1, 2, 0, 1>>[k]
    /\ pc = "wait" => Len(visited) = draw_calls - 1
    /\ pc = "idle" => Len(visited) = draw_calls
    /\ \A a \in Range(cpu_writes) : a.slot = visited[Len(visited)]
    /\ \A j \in gpu_work :
          /\ j.call <= Len(visited)
          /\ j.slot = visited[j.call]
          /\ j.fence = j.slot

C2_Witness ==
    /\ Len(visited) = 10
    /\ pc = "idle"
    /\ Len(cpu_writes) = 4

\* C3: with the GPU completing every submitted batch and every queued present,
\* the fence wait of every draw_frame call returns, and every fence of every
\* slot that is unsignaled becomes signaled (as long as the process has not
\* been aborted by a fatal error).
C3_NoDeadlock ==
    /\ (pc = "wait") ~> (pc # "wait")
    /\ \A i \in Slots :
          /\ (~in_flight_fence[i]) ~> (in_flight_fence[i] \/ pc = "panicked")
          /\ (~present_fence[i]) ~> (present_fence[i] \/ pc = "panicked")

\* draw_frame is blocked in its fence wait: the GPU still works on the slot.
C3_Witness ==
    /\ pc = "wait"
    /\ ~in_flight_fence[current_frame_index]
    /\ ~present_fence[current_frame_index]
    /\ swapchain > 0

\* C4: what a resize retired while current_frame_index = i sits in slot i's
\* deletion queues, undestroyed, until the next draw_frame call whose slot is
\* i; that call comes after two calls on other slots.
C4_DeferredDeletion ==
    /\ \A f \in freed :
          /\ f.freed_slot = f.pushed_slot
          /\ f.freed_at - f.pushed_at - 1 >= MAX_FRAMES_IN_FLIGHT - 1
          /\ \A k \in (f.pushed_at + 1) .. (f.freed_at - 1) : visited[k] # f.pushed_slot
    /\ \A s \in Slots :
          /\ \A e \in delete_queue_framebuffers[s] :
                e.pushed_slot = s /\ e.swapchain \notin destroyed_framebuffers
          /\ \A e \in delete_queue_image_views[s] :
                e.pushed_slot = s /\ e.swapchain \notin destroyed_image_views

\* One drain destroyed what an out-of-date acquire retired and what a window
\* resize retired.
C4_Witness ==
    /\ \E f \in freed : f.trigger = "acquire"
    /\ \E f \in freed : f.trigger = "window"

\* C5: when draw_frame destroys a retired framebuffer or image view, no batch
\* that renders into that swapchain's framebuffers and no present of its
\* images, from any slot, is still pending; and no pending GPU work ever
\* references a destroyed framebuffer or image view.
C5_NoUseAfterFree ==
    /\ \A f \in freed : f.in_use = {}
    /\ \A j \in gpu_work :
          /\ j.swapchain \notin destroyed_framebuffers
          /\ j.swapchain \notin destroyed_image_views

\* A drain has destroyed retired objects while the other two slots are busy
\* with frames on the newer swapchain.
C5_Witness ==
    /\ freed # {}
    /\ Cardinality(FramesInFlight(gpu_work)) = MAX_FRAMES_IN_FLIGHT
    /\ \E f \in freed : f.trigger = "present"

\* C6 as stated: every CPU access to a slot (buffer writes, command pool reset,
\* recording) happens while both fences of the slot are signaled.
C6_AllAccessesWhileSignaled ==
    \A a \in Range(cpu_writes) : a.in_flight /\ a.present

\* C6 amended: the uniform and storage buffer are written while both fences of
\* the slot are signaled; the command pool is reset and the command buffer
\* recorded after the CPU itself has reset both fences; at none of these
\* accesses is GPU work of the slot's previous use pending.
C6_NoOverlap ==
    \A a \in Range(cpu_writes) :
        /\ ~a.gpu_pending
        /\ a.op \in {"write_uniform", "write_storage"} => a.in_flight /\ a.present
        /\ a.op \in {"reset_command_pool", "record"} => ~a.in_flight /\ ~a.present

\* A slot is used again and recorded into.
C6_Witness ==
    /\ draw_calls > MAX_FRAMES_IN_FLIGHT
    /\ Len(cpu_writes) = 4
    /\ pc = "idle"

C8_NoPendingPresentOnDestroyedSwapchain ==
    \A r \in retired : r.pending_presents = {}

\* C9: the Meshes returned by accepted upload_mesh calls have non-decreasing
\* first_index and vertex_offset, each the cursor on entry divided by the
\* element size; the ranges copied into each arena by different calls lie
\* within the arena and do not overlap.
C9_MonotonicDisjoint ==
    /\ \A k \in 1 .. Len(uploads) :
          \A m \in uploads[k].mesh :
              /\ m.first_index = uploads[k].index_cursor \div INDEX_SIZE
              /\ m.vertex_offset = uploads[k].vertex_cursor \div VERTEX_SIZE
    /\ \A k \in 1 .. Len(uploads) : \A l \in 1 .. Len(uploads) :
          k < l =>
              /\ \A m \in uploads[k].mesh : \A n \in uploads[l].mesh :
                    /\ m.first_index <= n.first_index
                    /\ m.vertex_offset <= n.vertex_offset
              /\ \A c \in uploads[k].copies : \A d \in uploads[l].copies :
                    c.dst = d.dst => c.dstOffset + c.size <= d.dstOffset
    /\ \A k \in 1 .. Len(uploads) : \A c \in uploads[k].copies :
          c.dstOffset + c.size <= GLOBAL_BUFFER_SIZE

\* Three uploads accepted, the later ones behind non-empty earlier ones.
C9_Witness ==
    /\ Len(uploads) = 3
    /\ \A m \in uploads[2].mesh : m.first_index > 0 /\ m.vertex_offset > 0
    /\ \A m \in uploads[3].mesh : \A n \in uploads[2].mesh :
          m.first_index > n.first_index /\ m.vertex_offset > n.vertex_offset

\* C10: upload_mesh is rejected exactly when the vertex bytes or the index
\* bytes would pass the arena capacity; a rejected call has created no staging
\* buffer, submitted no copy and changed neither cursor.
C10_RejectedUnchanged ==
    /\ last_upload.calls > 0 =>
          (last_upload.panic # "none") <=>
              \/ last_upload.vertex_cursor + last_upload.vertices * VERTEX_SIZE
                     > GLOBAL_BUFFER_SIZE
              \/ last_upload.index_cursor + last_upload.indices * INDEX_SIZE
                     > GLOBAL_BUFFER_SIZE
    /\ last_upload.panic # "none" =>
          /\ pc = "panicked"
          /\ vertex_buffer_offset = last_upload.vertex_cursor
          /\ index_buffer_offset = last_upload.index_cursor
          /\ staging_buffers = last_upload.staging_buffers
          /\ Len(uploads) = last_upload.submitted

\* The vertex check passed and only the index check failed.
C10_Witness ==
    /\ last_upload.panic = "Global Index Buffer Full"
    /\ last_upload.vertices > 0
    /\ last_upload.vertex_cursor > 0

\* C11: both arena cursors stay within GLOBAL_BUFFER_SIZE; no step of the
\* renderer, of whatever operation, decreases a cursor; and every step of
\* draw_frame (entering it, leaving its fence wait) and every swapchain
\* recreation leaves both cursors as they were.
C11_CursorsBoundedMonotonic ==
    /\ [](/\ vertex_buffer_offset <= GLOBAL_BUFFER_SIZE
          /\ index_buffer_offset <= GLOBAL_BUFFER_SIZE)
    /\ [][/\ vertex_buffer_offset' >= vertex_buffer_offset
          /\ index_buffer_offset' >= index_buffer_offset]_vars
    /\ [][(draw_calls' # draw_calls \/ pc = "wait" \/ swapchain' # swapchain) =>
              /\ vertex_buffer_offset' = vertex_buffer_offset
              /\ index_buffer_offset' = index_buffer_offset]_vars

\* A mesh was uploaded behind the scene's meshes and moved the vertex cursor,
\* a frame was drawn and the swapchain was recreated.
C11_Witness ==
    /\ Len(uploads) > Len(SceneMeshes)
    /\ uploads[Len(uploads)].vertex_cursor > 0
    /\ vertex_buffer_offset > uploads[Len(uploads)].vertex_cursor
    /\ swapchain > 0
    /\ draw_calls > 0
    /\ pc = "idle"

\* C12: the extent of the swapchain is the surface's current extent, unchanged,
\* when that is defined; when it is not (currentExtent.width = UINT32_MAX),
\* each dimension of the window size is clamped on its own into
\* [minImageExtent, maxImageExtent]: below min gives min, above max gives max,
\* in between it is kept, and the result lies within the bounds; bounds
\* [100,100]-[800,800] with a 50x1000 window give 100x800.
C12_ExtentResolution ==
    LET capabilities == surface.capabilities
        lo == capabilities.minImageExtent
        hi == capabilities.maxImageExtent
        size == surface.inner_size
        extent == swapchain_state.extent
        Clamped(v, min, max, out) ==
            /\ v < min => out = min
            /\ v > max => out = max
            /\ (min <= v /\ v <= max) => out = v
            /\ min <= max => (min <= out /\ out <= max)
    IN  IF capabilities.currentExtent.width # UINT32_MAX
        THEN extent = capabilities.currentExtent
        ELSE /\ Clamped(size.width, lo.width, hi.width, extent.width)
             /\ Clamped(size.height, lo.height, hi.height, extent.height)
             /\ (/\ lo = [width |-> 100, height |-> 100]
                 /\ hi = [width |-> 800, height |-> 800]
                 /\ size = [width |-> 50, height |-> 1000])
                    => extent = [width |-> 100, height |-> 800]

\* A recreated swapchain on a surface without current extent, bounds
\* [100,100]-[800,800], window 50x1000: the extent is 100x800.
C12_Witness ==
    /\ swapchain > 0
    /\ surface.capabilities.currentExtent.width = UINT32_MAX
    /\ surface.capabilities.minImageExtent = [width |-> 100, height |-> 100]
    /\ surface.capabilities.maxImageExtent = [width |-> 800, height |-> 800]
    /\ surface.inner_size = [width |-> 50, height |-> 1000]
    /\ swapchain_state.extent = [width |-> 100, height |-> 800]

\* C13: when no format is pinned (the swapchain made by Renderer::new), for
\* every non-empty list of reported formats: if some entry is
\* (B8G8R8A8_UNORM, SRGB_NONLINEAR) and that format is color-attachment-capable,
\* the chosen format is that entry, wherever it stands in the list; otherwise
\* the chosen format is the first entry of the list.
C13_FormatSelection ==
    swapchain_state.format_chosen =>
        IF /\ PreferredFormat \in Range(surface.formats)
           /\ PreferredFormat.format \in surface.attachment
        THEN swapchain_state.surface_format = PreferredFormat
        ELSE swapchain_state.surface_format = surface.formats[1]

\* The preferred entry is attachment-capable and stands last in a list of
\* several formats, behind a different first entry, and it is the one chosen.
C13_Witness ==
    /\ swapchain_state.format_chosen
    /\ Len(surface.formats) > 1
    /\ surface.formats[1] # PreferredFormat
    /\ surface.formats[Len(surface.formats)] = PreferredFormat
    /\ PreferredFormat.format \in surface.attachment
    /\ swapchain_state.surface_format = PreferredFormat

\* C17: the surface format chosen by Renderer::new is pinned: no step, whatever
\* triggers a swapchain recreation (a window event, an out-of-date acquire, a
\* present result), changes swapchain.surface_format, the views of every
\* swapchain are of that format, and no recreation runs format selection.
C17_FormatPinned ==
    /\ [][swapchain_state'.surface_format = swapchain_state.surface_format]_vars
    /\ [](swapchain > 0 => ~swapchain_state.format_chosen)
    /\ [](\A v \in Range(swapchain_state.image_views) :
              v.format = swapchain_state.surface_format.format)

\* The swapchain was recreated by a window event and by draw_frame, the last
\* time on a surface where format selection would choose another format than
\* the pinned one.
C17_Witness ==
    /\ swapchain = MaxSurfaceResizes
    /\ choose_surface_format(surface.formats, surface.attachment)
           # swapchain_state.surface_format
    /\ swapchain_state.surface_format \notin Range(surface.formats)
    /\ \E i \in Slots : \E e \in delete_queue_image_views[i] : e.trigger = "window"
    /\ \E i \in Slots : \E e \in delete_queue_image_views[i] :
          e.trigger \in {"acquire", "present"}

\* C18: after Renderer::new and after every resize, the swapchain has as many
\* image views and as many framebuffers as its image count (the number of
\* images obtained for it, at least the requested minimum); the views are
\* those of the current swapchain's images in order, and the framebuffer at
\* position k is built from the view at position k with the swapchain's extent.
C18_ViewsAndFramebuffers ==
    /\ Len(swapchain_state.image_views) = swapchain_state.image_count
    /\ Len(swapchain_state.framebuffers) = swapchain_state.image_count
    /\ swapchain_state.image_count >= RequestedImageCount(surface.capabilities)
    /\ \A k \in 1 .. swapchain_state.image_count :
          /\ swapchain_state.image_views[k].swapchain = swapchain
          /\ swapchain_state.image_views[k].image = k - 1
          /\ swapchain_state.framebuffers[k].attachment = swapchain_state.image_views[k]
          /\ swapchain_state.framebuffers[k].width = swapchain_state.extent.width
          /\ swapchain_state.framebuffers[k].height = swapchain_state.extent.height

\* A swapchain recreated twice, the last time with more images than it had
\* before and than were requested.
C18_Witness ==
    /\ swapchain > 1
    /\ swapchain_state.image_count > RequestedImageCount(surface.capabilities)
    /\ swapchain_state.image_count > RequestedImageCount(DefaultSurface.capabilities)

\* ------------------------------------------------------------ C15
\* C15: when vkAcquireNextImageKHR reports out-of-date, draw_frame calls resize
\* and returns: the fences of the slot are not reset and stay signaled, no
\* command buffer is recorded or submitted and nothing is presented.  When it
\* reports suboptimal, draw_frame does exactly what it does on success, for
\* every present result: with a successful present it records, submits and
\* presents on the swapchain it acquired from, and does not resize.  (Every
\* step of draw_frame past vkWaitForFences starts with the thread in the wait.)
C15_AcquireResults ==
    [][pc = "wait" => \A present \in VkResults :
          LET cur == current_frame_index
              submitted == gpu_work' \ gpu_work
          IN  /\ draw_frame("VK_ERROR_OUT_OF_DATE_KHR", present, MaxFairResizes, {DefaultSurface})
                    => /\ swapchain' = SwapchainNew(swapchain)
                       /\ swapchain \in destroyed_swapchains'
                       /\ pc' = "idle"
                       /\ in_flight_fence' = in_flight_fence
                       /\ present_fence' = present_fence
                       /\ in_flight_fence'[cur] /\ present_fence'[cur]
                       /\ submitted = {}
                       /\ \A k \in 1 .. Len(cpu_writes') :
                             cpu_writes'[k].op \notin {"reset_command_pool", "record"}
              /\ draw_frame("VK_SUBOPTIMAL_KHR", present, MaxFairResizes, {DefaultSurface})
                    <=> draw_frame("VK_SUCCESS", present, MaxFairResizes, {DefaultSurface})
              /\ draw_frame("VK_SUBOPTIMAL_KHR", "VK_SUCCESS", MaxFairResizes, {DefaultSurface})
                    => /\ swapchain' = swapchain
                       /\ pc' = "idle"
                       /\ ~in_flight_fence'[cur] /\ ~present_fence'[cur]
                       /\ {j.kind : j \in submitted} = {"render", "present"}
                       /\ \A j \in submitted : j.slot = cur /\ j.swapchain = swapchain
                       /\ \E k \in 1 .. Len(cpu_writes') : cpu_writes'[k].op = "record"]_vars

\* A draw_frame call has just returned after an out-of-date acquire: the
\* swapchain it found is in the delete queue of the slot, and the fences of
\* the slot are still signaled.
C15_Witness ==
    /\ pc = "idle"
    /\ draw_calls > 0
    /\ \E s \in Slots : \E e \in delete_queue_framebuffers[s] :
          /\ e.trigger = "acquire"
          /\ e.pushed_at = draw_calls
          /\ e.pushed_slot = current_frame_index
    /\ in_flight_fence[current_frame_index]
    /\ present_fence[current_frame_index]
    /\ \A k \in 1 .. Len(cpu_writes) : cpu_writes[k].op # "record"

\* ------------------------------------------------------------ C16
\* C16: after a successful or suboptimal acquire, a present result of
\* out-of-date or suboptimal makes draw_frame call resize once before it
\* returns (one new swapchain, the presented one retired); a present result of
\* success leaves the swapchain alone; any other present result is fatal.
C16_PresentResults ==
    [][pc = "wait" => \A acquire \in {"VK_SUCCESS", "VK_SUBOPTIMAL_KHR"} :
          /\ \A present \in {"VK_ERROR_OUT_OF_DATE_KHR", "VK_SUBOPTIMAL_KHR"} :
                draw_frame(acquire, present, MaxFairResizes, {DefaultSurface})
                    => /\ swapchain' = SwapchainNew(swapchain)
                       /\ destroyed_swapchains' = destroyed_swapchains \cup {swapchain}
                       /\ pc' = "idle"
                       /\ \E j \in gpu_work' \ gpu_work :
                             j.kind = "present" /\ j.swapchain = swapchain
          /\ draw_frame(acquire, "VK_SUCCESS", MaxFairResizes, {DefaultSurface})
                => /\ swapchain' = swapchain
                   /\ destroyed_swapchains' = destroyed_swapchains
                   /\ swapchain_state' = swapchain_state
                   /\ pc' = "idle"
          /\ \A present \in VkResults \ {"VK_SUCCESS", "VK_ERROR_OUT_OF_DATE_KHR",
                                         "VK_SUBOPTIMAL_KHR"} :
                draw_frame(acquire, present, MaxFairResizes, {DefaultSurface})
                    => /\ pc' = "panicked"
                       /\ swapchain' = swapchain]_vars

\* A draw_frame call has just returned after resizing on its present result:
\* the present it queued on the retired swapchain is still pending.
C16_Witness ==
    /\ pc = "idle"
    /\ \E s \in Slots : \E e \in delete_queue_framebuffers[s] :
          /\ e.trigger = "present"
          /\ e.pushed_at = draw_calls
          /\ e.swapchain = swapchain - 1
          /\ \E j \in gpu_work : j.kind = "present" /\ j.call = draw_calls
                                   /\ j.swapchain = e.swapchain

\* ------------------------------------------------------------ C20
\* C20: a Resized event with width 0 or height 0 does not call Renderer::resize
\* and changes nothing; a Resized event with both dimensions non-zero, once the
\* renderer, the instance and the window exist, calls resize exactly once (one
\* new swapchain, the old one retired with trigger "window"); a
\* RedrawRequested event enters draw_frame exactly once; and before `resumed`
\* has created the renderer, the instance and the window no event resizes or
\* draws.
C20_EventDispatch ==
    [][/\ pc = "idle" =>
            \A width \in Widths, height \in Heights :
                Resized(width, height, MaxAppResizes, {DefaultSurface}) =>
                    IF width = 0 \/ height = 0
                    THEN UNCHANGED vars
                    ELSE IF {"renderer", "instance", "window"} \subseteq created
                    THEN /\ swapchain' = SwapchainNew(swapchain)
                         /\ destroyed_swapchains' = destroyed_swapchains \cup {swapchain}
                         /\ \E e \in delete_queue_framebuffers'[RetireSlot(current_frame_index)] :
                               e.trigger = "window" /\ e.swapchain = swapchain
                         /\ draw_calls' = draw_calls
                    ELSE UNCHANGED vars
       /\ DrawFrameEnter(MaxAppDraws) =>
            /\ draw_calls' = draw_calls + 1
            /\ {"renderer", "instance", "window"} \subseteq created
       /\ ~({"renderer", "instance", "window"} \subseteq created) =>
            /\ swapchain' = swapchain
            /\ swapchain_state' = swapchain_state
            /\ draw_calls' = draw_calls
            /\ pc' = "idle"]_vars

\* After `resumed`, a frame has been drawn and a non-zero Resized event has
\* just recreated the swapchain.
C20_Witness ==
    /\ created = Created
    /\ pc = "idle"
    /\ draw_calls > 0
    /\ swapchain > 0
    /\ \E e \in delete_queue_framebuffers[RetireSlot(current_frame_index)] :
          e.trigger = "window" /\ e.swapchain = swapchain - 1 /\ e.pushed_at = draw_calls

\* ------------------------------------------------------------ C14
\* Bit b of the unsigned integer n.
Bit(n, b) == (n \div 2^b) % 2

\* The indices below memoryTypeCount whose bit is set in the type filter and
\* whose property flags include every requested flag.
Suitable(memory_properties, type_filter, properties) ==
    {i \in 0 .. (memory_properties.memoryTypeCount - 1) :
        /\ Bit(type_filter, i) = 1
        /\ \A b \in 0 .. 2 :
              Bit(properties, b) = 1 =>
                  Bit(memory_properties.memoryTypes[i].propertyFlags, b) = 1}

\* C14: find_memory_type returns the lowest index below memoryTypeCount whose
\* bit is set in the type filter and whose property flags include all the
\* requested flags; with filter 0b0110, index 1 suitable and index 2 not, it
\* returns 1; when no index is suitable it panics and returns no index.
C14_LowestMatchingIndex ==
    memory_type.called =>
        LET suitable == Suitable(physical_device, memory_type.type_filter,
                                 memory_type.properties)
        IN  /\ IF suitable = {}
               THEN /\ memory_type.index = {}
                    /\ memory_type.panic # "none"
                    /\ pc = "panicked"
               ELSE /\ memory_type.index = {i \in suitable : \A j \in suitable : i <= j}
                    /\ memory_type.panic = "none"
                    /\ pc = "idle"
            /\ (memory_type.type_filter = 6 /\ 1 \in suitable /\ 2 \notin suitable)
                   => memory_type.index = {1}

\* The example: three memory types, type filter 0b0110, index 1 has the
\* requested HOST_VISIBLE | HOST_COHERENT and index 2 only HOST_VISIBLE.
C14_Witness ==
    /\ memory_type.called
    /\ physical_device.memoryTypeCount = 3
    /\ memory_type.type_filter = 6
    /\ memory_type.properties = 6
    /\ physical_device.memoryTypes[0].propertyFlags = 6
    /\ physical_device.memoryTypes[1].propertyFlags = 6
    /\ physical_device.memoryTypes[2].propertyFlags = 2
    /\ memory_type.index = {1}

\* ------------------------------------------------------------ C19
\* C19: a creation, allocation, mapping or submission call that returns a
\* non-success code aborts the process at once: whenever a call of
\* Renderer::new has failed, the process has panicked (and so makes no
\* further call).
C19_FailedCallAborts ==
    failed_calls # {} => pc = "panicked"

\* ------------------------------------------------------------ C21
\* The order the steps of one draw_frame call must have.
FrameOrder ==
    <<"vkWaitForFences", "drain", "write_uniform", "write_storage",
      "vkAcquireNextImageKHR", "vkResetFences", "vkResetFences",
      "vkResetCommandPool", "record", "vkQueueSubmit", "vkQueuePresentKHR">>

IsFrameStep(step) == step.op # "resize"

Ops(log) == [k \in 1 .. Len(log) |-> log[k].op]

\* C21: within one draw_frame call the steps happen, all on the slot of the
\* call, in the order wait, drain, write uniform and object data, acquire,
\* reset both fences, reset the command pool and record, submit, present (a
\* call that ends early does a prefix of them, and a resize can only come
\* last); a call records or submits only if its own acquire returned success
\* or suboptimal, and presents only after its own submit.
C21_StepOrder ==
    /\ [](LET calls == Ops(SelectSeq(frame_log, IsFrameStep))
              ops == Ops(frame_log)
          IN  /\ Len(calls) <= Len(FrameOrder)
              /\ calls = SubSeq(FrameOrder, 1, Len(calls))
              /\ \A k \in 1 .. Len(ops) : ops[k] = "resize" => k = Len(ops)
              /\ \A k \in 1 .. Len(frame_log) : frame_log[k].slot = frame_log[1].slot
              /\ (pc # "wait" /\ frame_log # <<>>) => frame_log[1].slot = current_frame_index
              /\ \A k \in 1 .. Len(ops) :
                    ops[k] = "vkQueuePresentKHR" =>
                        \E j \in 1 .. (k - 1) : ops[j] = "vkQueueSubmit"
              /\ \A k \in 1 .. Len(ops) :
                    ops[k] \in {"record", "vkQueueSubmit"} =>
                        \E j \in 1 .. (k - 1) : ops[j] = "vkAcquireNextImageKHR")
    /\ [][pc = "wait" => \A acquire \in VkResults, present \in VkResults :
            (/\ draw_frame(acquire, present, MaxFairResizes, {DefaultSurface})
             /\ \E k \in 1 .. Len(frame_log') :
                   frame_log'[k].op \in {"record", "vkQueueSubmit", "vkQueuePresentKHR"})
                => acquire \in {"VK_SUCCESS", "VK_SUBOPTIMAL_KHR"}]_vars

\* A second draw_frame call went through all its steps up to the present, on
\* slot 2.
C21_Witness ==
    /\ pc = "idle"
    /\ draw_calls = 2
    /\ Len(frame_log) = Len(FrameOrder)
    /\ frame_log[Len(frame_log)].op = "vkQueuePresentKHR"
    /\ frame_log[1].slot = 2

\* ------------------------------------------------------------ C22
\* C22: for every submitted frame the GPU-side order is acquire, render,
\* present: vkQueueSubmit waits on the image-available semaphore of the slot,
\* the one the acquire of the same call signals, and signals the
\* render-finished semaphore and the in-flight fence of the slot;
\* vkQueuePresentKHR waits on that render-finished semaphore and signals the
\* present fence of the slot; when a batch completes the in-flight fence of its
\* slot is signaled, when a present completes the present fence of its slot is
\* signaled, and no present completes while the batch of its frame is pending.
C22_GpuOrder ==
    /\ [](\A k \in 1 .. Len(frame_log) :
            LET step == frame_log[k]
                s == step.slot
            IN  /\ step.op = "vkQueueSubmit" =>
                      /\ step.wait = [semaphore |-> "image_available", slot |-> s]
                      /\ \E a \in 1 .. (k - 1) :
                            /\ frame_log[a].op = "vkAcquireNextImageKHR"
                            /\ frame_log[a].signal = step.wait
                      /\ step.signal = [semaphore |-> "render_finished", slot |-> s]
                      /\ step.fence = [fence |-> "in_flight_fence", slot |-> s]
                /\ step.op = "vkQueuePresentKHR" =>
                      /\ step.wait = [semaphore |-> "render_finished", slot |-> s]
                      /\ \E b \in 1 .. (k - 1) :
                            /\ frame_log[b].op = "vkQueueSubmit"
                            /\ frame_log[b].signal = step.wait
                      /\ step.fence = [fence |-> "present_fence", slot |-> s])
    /\ [](\A j \in gpu_work :
            /\ j.kind = "render" => j.fence = j.slot /\ ~in_flight_fence[j.slot]
            /\ j.kind = "present" => j.fence = j.slot /\ ~present_fence[j.slot])
    /\ [][\A j \in gpu_work \ gpu_work' :
            /\ j.kind = "render" => in_flight_fence'[j.slot]
            /\ j.kind = "present" =>
                  /\ present_fence'[j.slot]
                  /\ ~ \E r \in gpu_work : r.kind = "render" /\ r.call = j.call
                  /\ in_flight_fence[j.slot]]_vars

\* The frame of the latest call was rendered and then presented: both its
\* jobs are done and both fences of its slot are signaled again.
C22_Witness ==
    /\ pc = "idle"
    /\ draw_calls > 0
    /\ gpu_work = {}
    /\ Len(frame_log) > 0
    /\ frame_log[Len(frame_log)].op = "vkQueuePresentKHR"
    /\ in_flight_fence[current_frame_index]
    /\ present_fence[current_frame_index]

\* ------------------------------------------------------------ C23
\* C23: both fences of every slot are created signaled: as long as no
\* draw_frame call has gone past the wait on a slot, hence nothing was
\* submitted for it, both its fences are signaled, and the first call that
\* visits the slot finds its wait satisfied.
C23_FirstWaitPasses ==
    /\ \A s \in Slots :
          s \notin Range(visited) => in_flight_fence[s] /\ present_fence[s]
    /\ (pc = "wait" /\ current_frame_index \notin Range(visited))
          => /\ WaitForFences(current_frame_index)
             /\ \A j \in gpu_work : j.slot # current_frame_index

\* The third call is in its wait on slot 0, which no call has visited, while
\* the frames of the two other slots are in flight.
C23_Witness ==
    /\ pc = "wait"
    /\ draw_calls = 3
    /\ current_frame_index = 0
    /\ current_frame_index \notin Range(visited)
    /\ {j.slot : j \in gpu_work} = {1, 2}
    /\ in_flight_fence[0] /\ present_fence[0]

\* ------------------------------------------------------------ C24
\* C24: a resize puts the framebuffers and the image views of the current
\* swapchain into the deletion queues of the slot at current_frame_index,
\* behind what is queued there, replaces the swapchain and builds the
\* framebuffers of the new one; it changes neither current_frame_index, nor the
\* arena cursors, nor the deletion queues of the other slots, and a resize on
\* a window event changes no fence and no GPU work either.  (A resize inside
\* draw_frame finds the queues of the slot just drained.)
C24_ResizeEffect ==
    [][swapchain' # swapchain =>
          LET cur == current_frame_index
              retired_now(q) == {e \in q[cur] : e.swapchain = swapchain}
          IN  /\ swapchain' = SwapchainNew(swapchain)
              /\ current_frame_index' = cur
              /\ vertex_buffer_offset' = vertex_buffer_offset
              /\ index_buffer_offset' = index_buffer_offset
              /\ \A s \in Slots \ {cur} :
                    /\ delete_queue_framebuffers'[s] = delete_queue_framebuffers[s]
                    /\ delete_queue_image_views'[s] = delete_queue_image_views[s]
              /\ Cardinality(retired_now(delete_queue_framebuffers')) = 1
              /\ Cardinality(retired_now(delete_queue_image_views')) = 1
              /\ \A e \in retired_now(delete_queue_framebuffers')
                        \cup retired_now(delete_queue_image_views') : e.pushed_slot = cur
              /\ pc = "idle" =>
                    /\ delete_queue_framebuffers'[cur] =
                           delete_queue_framebuffers[cur]
                               \cup retired_now(delete_queue_framebuffers')
                    /\ delete_queue_image_views'[cur] =
                           delete_queue_image_views[cur]
                               \cup retired_now(delete_queue_image_views')
                    /\ in_flight_fence' = in_flight_fence
                    /\ present_fence' = present_fence
                    /\ gpu_work' = gpu_work
                    /\ UNCHANGED <<draw_calls, destroyed_framebuffers, destroyed_image_views>>
              /\ pc = "wait" =>
                    /\ delete_queue_framebuffers'[cur] = retired_now(delete_queue_framebuffers')
                    /\ delete_queue_image_views'[cur] = retired_now(delete_queue_image_views')
              /\ Len(swapchain_state'.framebuffers) = swapchain_state'.image_count
              /\ swapchain_state'.surface_format = swapchain_state.surface_format]_vars

\* Two window resizes in a row on the same slot: the framebuffers and views of
\* two swapchains wait in its deletion queues.
C24_Witness ==
    /\ pc = "idle"
    /\ swapchain = 2
    /\ {e.swapchain : e \in delete_queue_framebuffers[current_frame_index]} = {0, 1}
    /\ {e.swapchain : e \in delete_queue_image_views[current_frame_index]} = {0, 1}
    /\ \A e \in delete_queue_framebuffers[current_frame_index] : e.trigger = "window"

\* ------------------------------------------------------------ Drop for Renderer

MaxTeardownDraws == 4
MaxTeardownResizes == 2

\* Swapchain::destroy: every framebuffer and image view of the swapchain is
\* destroyed and the two vectors are cleared, then the handle is destroyed.
SwapchainDestroy(state) == [state EXCEPT !.framebuffers = <<>>, !.image_views = <<>>]

\* The results of vkDeviceWaitIdle the drop tells apart.
WaitIdleResults == {"VK_SUCCESS", "ERROR"}

\* What a panic does in the build: it unwinds the stack, dropping what goes
\* out of scope, or it aborts the process.
PanicStrategies == {"unwind", "abort"}

\* FrameData::destroy of slot i, in program order.
FrameDataDestroy(i) ==
    <<[op |-> "vkUnmapMemory", slot |-> i, of |-> "global_buffer"],
      [op |-> "destroy_buffer", slot |-> i, of |-> "global_buffer"],
      [op |-> "vkUnmapMemory", slot |-> i, of |-> "object_buffer"],
      [op |-> "destroy_buffer", slot |-> i, of |-> "object_buffer"],
      [op |-> "vkDestroySemaphore", slot |-> i, of |-> "image_available_semaphore"],
      [op |-> "vkDestroySemaphore", slot |-> i, of |-> "render_finished_semaphore"],
      [op |-> "vkDestroyFence", slot |-> i, of |-> "in_flight_fence"],
      [op |-> "vkDestroyFence", slot |-> i, of |-> "present_fence"],
      [op |-> "vkDestroyCommandPool", slot |-> i, of |-> "command_pool"]>>

\* for frame in self.frames.iter_mut() { frame.destroy(self.device); }
RECURSIVE FramesDestroy(_)
FramesDestroy(n) ==
    IF n = 0 THEN <<>> ELSE FramesDestroy(n - 1) \o FrameDataDestroy(n - 1)

\* The body of Drop for Renderer after the frame slots.
RendererDestroy ==
    <<[op |-> "destroy", of |-> "descriptor_pool"],
      [op |-> "destroy", of |-> "descriptor_set_layout"],
      [op |-> "destroy", of |-> "vertex_buffer"],
      [op |-> "destroy", of |-> "index_buffer"],
      [op |-> "destroy", of |-> "upload_command_pool"],
      [op |-> "destroy", of |-> "pipeline"],
      [op |-> "destroy", of |-> "render_pass"],
      [op |-> "destroy", of |-> "swapchain"]>>

\* Drop for Image, for each of the n images of Renderer.images: the fields of
\* the Renderer are dropped once the body of its drop is left.
RECURSIVE ImagesDrop(_)
ImagesDrop(n) ==
    IF n = 0 THEN <<>>
    ELSE ImagesDrop(n - 1)
             \o <<[op |-> "vkDestroyImageView", image |-> n],
                  [op |-> "vkDestroyImage", image |-> n],
                  [op |-> "vkFreeMemory", image |-> n]>>

\* The drop of a Renderer with n images, when vkDeviceWaitIdle returns `wait`.
\* A failed wait panics: the body is left at once; the fields are still
\* dropped when the panic unwinds, unless the drop itself runs during the
\* unwinding of an earlier panic (`unwinding`), where a second panic aborts.
DropSteps(n, wait, strategy, unwinding) ==
    IF wait = "VK_SUCCESS"
    THEN <<[op |-> "vkDeviceWaitIdle", result |-> wait]>>
             \o FramesDestroy(MAX_FRAMES_IN_FLIGHT) \o RendererDestroy \o ImagesDrop(n)
    ELSE <<[op |-> "vkDeviceWaitIdle", result |-> wait], [op |-> "panic"]>>
             \o (IF strategy = "unwind" /\ ~unwinding THEN ImagesDrop(n) ELSE <<>>)

\* impl Drop for Renderer, when the renderer goes out of scope at the end of
\* the event loop or while a panic of draw_frame or resize unwinds:
\* vkDeviceWaitIdle returns once the GPU has nothing left to do, frame.destroy
\* destroys the buffers, semaphores, fences and command pool of every slot and
\* leaves its deletion queues alone, and swapchain.destroy() comes last.
\* `results` are the results vkDeviceWaitIdle can return.
RendererDrop(results) ==
    /\ pc \in {"idle", "panicked"}
    /\ Ready({"renderer"})
    /\ drop_log = <<>>
    /\ \E wait \in results, strategy \in PanicStrategies :
          /\ drop_log' = DropSteps(Len(textures.images_data), wait, strategy,
                                   pc = "panicked")
          /\ IF wait = "VK_SUCCESS" THEN
                 /\ gpu_work' = {}
                 /\ destroyed_framebuffers' = destroyed_framebuffers \cup {swapchain}
                 /\ destroyed_image_views' = destroyed_image_views \cup {swapchain}
                 /\ destroyed_swapchains' = destroyed_swapchains \cup {swapchain}
                 /\ swapchain_state' = SwapchainDestroy(swapchain_state)
                 /\ pc' = "dropped"
             ELSE
                 /\ pc' = "panicked"
                 /\ UNCHANGED <<gpu_work, destroyed_framebuffers, destroyed_image_views,
                                destroyed_swapchains, swapchain_state>>
    /\ UNCHANGED <<current_frame_index, in_flight_fence, present_fence,
                   delete_queue_framebuffers, delete_queue_image_views, swapchain,
                   freed, retired, draw_calls, visited, cpu_writes, surface>>
    /\ UNCHANGED arena_vars
    /\ UNCHANGED <<app_vars, device_vars, frame_log, upload_log, textures>>

\* Draws and resizes with the GPU running alongside, a swapchain recreation
\* that may fail, and the renderer dropped at any point between two calls.
TeardownNext ==
    \/ DrawFrameEnter(MaxTeardownDraws)
    \/ DrawFrameProceed(MaxTeardownResizes, {DefaultSurface})
    \/ WindowResized(MaxTeardownResizes, {DefaultSurface})
    \/ ResizedPanics(MaxTeardownResizes, CreateResults)
    \/ GpuCompleteRender
    \/ GpuCompletePresent
    \/ RendererDrop(WaitIdleResults)

TeardownSpec == Init /\ [][TeardownNext]_vars

\* ------------------------------------------------------------ staging buffers

MaxStagingUploads == 2

\* upload_mesh calls in which vkQueueSubmit and vkQueueWaitIdle may fail.
StagingNext == UploadMesh(MaxStagingUploads, SubmitResults)

StagingSpec == Init /\ [][StagingNext]_vars

\* ------------------------------------------------------------ texture upload

MaxTextureDraws == 1
MaxTextureResizes == 1

\* Before `resumed`, with any of the image lists.
TextureInit ==
    /\ RendererNew(DefaultSurface)
    /\ created = {}
    /\ scene = <<>>
    /\ textures \in {TexturesNew(images_data) : images_data \in TextureSets}
    /\ DeviceReady

\* The application from `resumed` on, when vkQueueSubmit and vkQueueWaitIdle
\* may fail in the texture upload.
TextureNext ==
    \/ Resumed(SubmitResults)
    \/ DrawFrameEnter(MaxTextureDraws)
    \/ DrawFrameProceed(MaxTextureResizes, {DefaultSurface})
    \/ WindowResized(MaxTextureResizes, {DefaultSurface})
    \/ GpuCompleteRender
    \/ GpuCompletePresent

TextureSpec == TextureInit /\ [][TextureNext]_vars

\* ------------------------------------------------------------ scenes

MaxSceneDraws == 2
MaxSceneResizes == 1

\* Scene.entities is a public Vec<Entity> and draw_frame takes any &Scene: the
\* empty scene, one entity, the scene of Scene::new, and a scene whose
\* entities use the meshes in another order.
Scenes ==
    LET square == DefaultScene[1].mesh
        triangle == DefaultScene[2].mesh
    IN  {<<>>,
         <<Entity(triangle, 7)>>,
         DefaultScene,
         <<Entity(triangle, 3), Entity(square, 1), Entity(triangle, 3), Entity(square, 2)>>}

SceneInit ==
    /\ RendererNew(DefaultSurface)
    /\ created = Created
    /\ scene \in Scenes
    /\ textures = TexturesUploaded
    /\ DeviceReady

\* Frames of each of these scenes, with resizes and the GPU running alongside.
SceneNext ==
    \/ DrawFrameEnter(MaxSceneDraws)
    \/ DrawFrameProceed(MaxSceneResizes, {DefaultSurface})
    \/ WindowResized(MaxSceneResizes, {DefaultSurface})
    \/ GpuCompleteRender
    \/ GpuCompletePresent

SceneSpec == SceneInit /\ [][SceneNext]_vars

\* ------------------------------------------------------------ large scenes

MaxLargeSceneDraws == 2
MaxLargeSceneResizes == 1

\* A scene of n entities; with n = MAX_OBJECT + 1 it has one entity more than
\* the object buffer holds.
LargeScene(n) == [k \in 1 .. n |-> Entity(DefaultScene[2].mesh, k)]

LargeSceneInit ==
    /\ RendererNew(DefaultSurface)
    /\ created = Created
    /\ scene = LargeScene(MAX_OBJECT + 1)
    /\ textures = TexturesUploaded
    /\ DeviceReady

LargeSceneNext ==
    \/ DrawFrameEnter(MaxLargeSceneDraws)
    \/ DrawFrameProceed(MaxLargeSceneResizes, {DefaultSurface})
    \/ WindowResized(MaxLargeSceneResizes, {DefaultSurface})
    \/ GpuCompleteRender
    \/ GpuCompletePresent

LargeSceneSpec == LargeSceneInit /\ [][LargeSceneNext]_vars

\* ------------------------------------------------------------ C25
\* C25: Swapchain::new hands the old swapchain handle to the creation of the
\* new swapchain (none on the first creation), and destroys the old handle
\* only when the new swapchain was created: every step that destroys a
\* swapchain destroys exactly the one that was current, which had not been
\* destroyed before, and installs a new one; a creation that fails destroys
\* nothing; the first creation destroys nothing; and the image views and
\* framebuffers of the old swapchain are not destroyed by the step, they wait
\* in a deletion queue.
C25_OldSwapchain ==
    /\ [](swapchain_state.old_swapchain =
              IF swapchain = 0 THEN NullHandle ELSE swapchain - 1)
    /\ [](swapchain = 0 => destroyed_swapchains = {})
    /\ [](destroyed_swapchains = 0 .. (swapchain - 1))
    /\ [][/\ swapchain' # swapchain =>
                /\ destroyed_swapchains' \ destroyed_swapchains = {swapchain}
                /\ swapchain \notin destroyed_swapchains
                /\ swapchain \notin destroyed_framebuffers'
                /\ swapchain \notin destroyed_image_views'
                /\ \E s \in Slots :
                      /\ \E e \in delete_queue_framebuffers'[s] : e.swapchain = swapchain
                      /\ \E e \in delete_queue_image_views'[s] : e.swapchain = swapchain
          /\ swapchain' = swapchain => destroyed_swapchains' = destroyed_swapchains
          /\ (pc = "idle" /\ surface'.create_result # "VK_SUCCESS") =>
                /\ pc' = "panicked"
                /\ swapchain_state' = swapchain_state
                /\ destroyed_swapchains' = destroyed_swapchains]_vars

\* A second recreation failed in vkCreateSwapchainKHR: the program panicked
\* with swapchain 1 still alive, after the first recreation destroyed
\* swapchain 0.
C25_Witness ==
    /\ pc = "panicked"
    /\ surface.create_result = "ERROR"
    /\ swapchain = 1
    /\ swapchain_state.old_swapchain = 0
    /\ destroyed_swapchains = {0}

\* ------------------------------------------------------------ C26
\* C26: the drain at the start of draw_frame destroys every framebuffer and
\* image view queued in the visited slot and leaves the two queues of that
\* slot empty (only a resize later in the same call may queue the swapchain it
\* retires); before the renderer is dropped no other step destroys a
\* framebuffer or an image view; the drop destroys those of the swapchain then
\* in use; and no framebuffer or image view is destroyed twice: nothing a
\* step destroys was destroyed before, and no queue holds an object twice.
C26_DrainOnly ==
    /\ [](LET Ids(entries) == {e.swapchain : e \in entries}
              Queued(queue) == UNION {queue[s] : s \in Slots}
              Once(queue, destroyed) ==
                  /\ \A s1 \in Slots, s2 \in Slots :
                        \A e1 \in queue[s1], e2 \in queue[s2] :
                            e1.swapchain = e2.swapchain => (e1 = e2 /\ s1 = s2)
                  /\ Ids(Queued(queue)) \cap destroyed = {}
          IN  pc # "dropped" =>
                /\ Once(delete_queue_framebuffers, destroyed_framebuffers)
                /\ Once(delete_queue_image_views, destroyed_image_views))
    /\ [][LET Ids(entries) == {e.swapchain : e \in entries}
              cur == current_frame_index
              Drains(queue, queue_after, destroyed, destroyed_after) ==
                  /\ destroyed_after = destroyed \cup Ids(queue[cur])
                  /\ Ids(queue[cur]) \cap destroyed = {}
                  /\ queue_after[cur] \cap queue[cur] = {}
                  /\ swapchain' = swapchain => queue_after[cur] = {}
                  /\ \A e \in queue_after[cur] : e.swapchain = swapchain
                  /\ \A s \in Slots \ {cur} : queue_after[s] = queue[s]
              Drops(destroyed, destroyed_after) ==
                  /\ destroyed_after = destroyed \cup {swapchain}
                  /\ swapchain \notin destroyed
          IN  /\ visited' # visited =>
                    /\ Drains(delete_queue_framebuffers, delete_queue_framebuffers',
                              destroyed_framebuffers, destroyed_framebuffers')
                    /\ Drains(delete_queue_image_views, delete_queue_image_views',
                              destroyed_image_views, destroyed_image_views')
              /\ (visited' = visited /\ pc' # "dropped") =>
                    /\ destroyed_framebuffers' = destroyed_framebuffers
                    /\ destroyed_image_views' = destroyed_image_views
              /\ (pc # "dropped" /\ pc' = "dropped") =>
                    /\ Drops(destroyed_framebuffers, destroyed_framebuffers')
                    /\ Drops(destroyed_image_views, destroyed_image_views')
                    /\ delete_queue_framebuffers' = delete_queue_framebuffers
                    /\ delete_queue_image_views' = delete_queue_image_views]_vars

\* The renderer was dropped after two resizes: the views and framebuffers of
\* the first swapchain were destroyed by a drain, those of the third by the
\* drop, and those of the second are still queued.
C26_Witness ==
    /\ pc = "dropped"
    /\ swapchain = 2
    /\ destroyed_framebuffers = {0, 2}
    /\ destroyed_image_views = {0, 2}
    /\ \E s \in Slots : \E e \in delete_queue_framebuffers[s] : e.swapchain = 1
    /\ \E e \in freed : e.swapchain = 0

\* ------------------------------------------------------------ C27
\* C27: a frame that is submitted has recorded, for a scene of n entities,
\* exactly n indexed draws in list order, the k-th (from 0) with push constant
\* k and the index_count, first_index and vertex_offset of the k-th entity's
\* mesh; a scene without entities records no draw, and its frame is submitted
\* and presented all the same.
C27_DrawsInOrder ==
    \A k \in 1 .. Len(frame_log) :
        /\ frame_log[k].op = "vkQueueSubmit" =>
              /\ k > 1
              /\ frame_log[k - 1].op = "record"
        /\ frame_log[k].op = "record" =>
              LET draws == frame_log[k].draws
              IN  /\ Len(draws) = Len(scene)
                  /\ \A i \in 1 .. Len(scene) :
                        /\ draws[i].push_constant = i - 1
                        /\ draws[i].index_count = scene[i].mesh.index_count
                        /\ draws[i].first_index = scene[i].mesh.first_index
                        /\ draws[i].vertex_offset = scene[i].mesh.vertex_offset
                  /\ Len(frame_log) >= k + 2
                  /\ frame_log[k + 1].op = "vkQueueSubmit"
                  /\ frame_log[k + 2].op = "vkQueuePresentKHR"

\* The second frame of a scene whose four entities alternate between the two
\* meshes was recorded, submitted and presented.
C27_Witness ==
    /\ Len(scene) = 4
    /\ scene[1].mesh = scene[3].mesh
    /\ scene[1].mesh # scene[2].mesh
    /\ draw_calls = 2
    /\ \E k \in 1 .. Len(frame_log) :
          /\ frame_log[k].op = "record"
          /\ Len(frame_log[k].draws) = 4
          /\ frame_log[k].draws[3].push_constant = 2
    /\ frame_log[Len(frame_log)].op = "vkQueuePresentKHR"

\* ------------------------------------------------------------ C28
\* C28: in every draw_frame call the object data of every entity is written:
\* element k of the slot's storage buffer holds the data of the entity at list
\* position k, and every push constant of a draw recorded in the call is the
\* index of an element below MAX_OBJECT that the call wrote.
C28_ObjectsWritten ==
    \A w \in 1 .. Len(frame_log) :
        frame_log[w].op = "write_storage" =>
            LET written == frame_log[w].written
            IN  /\ \A i \in 1 .. Len(scene) :
                      /\ (i - 1) \in DOMAIN written
                      /\ written[i - 1] = scene[i].data
                /\ \A k \in 1 .. Len(frame_log) :
                      frame_log[k].op = "record" =>
                          \A d \in 1 .. Len(frame_log[k].draws) :
                              /\ frame_log[k].draws[d].push_constant < MAX_OBJECT
                              /\ frame_log[k].draws[d].push_constant \in DOMAIN written

\* ------------------------------------------------------------ C29
\* The order of the steps of an upload_mesh call that returns.
UploadOrder ==
    <<"check_vertex_capacity", "check_index_capacity", "create_staging", "vkMapMemory",
      "copy_vertices", "copy_indices", "vkUnmapMemory", "vkAllocateCommandBuffers",
      "vkBeginCommandBuffer", "vkCmdCopyBuffer", "vkCmdCopyBuffer", "vkEndCommandBuffer",
      "vkQueueSubmit", "vkQueueWaitIdle", "vkFreeCommandBuffers", "destroy_staging",
      "advance_cursors">>

\* C29: an upload_mesh call that passes its capacity checks does, in this
\* order: the checks, the creation of the staging buffer, the copy of the
\* vertex bytes to staging offset 0 and of the index bytes to the offset equal
\* to the vertex byte size, one submission followed by the wait for the queue,
\* the destruction of the staging buffer, the advance of the cursors; the
\* staging buffer is destroyed once, and not while the copies submitted from it
\* are still pending.
C29_UploadOrder ==
    (upload_log # <<>> /\ upload_log[Len(upload_log)].op # "panic") =>
        /\ Ops(upload_log) = UploadOrder
        /\ \A k \in 1 .. Len(upload_log) :
              LET step == upload_log[k]
              IN  /\ step.op = "copy_vertices" =>
                        /\ step.offset = 0
                        /\ step.size = last_upload.vertices * VERTEX_SIZE
                  /\ step.op = "copy_indices" =>
                        /\ step.offset = last_upload.vertices * VERTEX_SIZE
                        /\ step.size = last_upload.indices * INDEX_SIZE
                  /\ step.op = "destroy_staging" => ~step.copy_pending
        /\ Cardinality({k \in 1 .. Len(upload_log) : upload_log[k].op = "destroy_staging"}) = 1
        /\ Cardinality({k \in 1 .. Len(upload_log) : upload_log[k].op = "vkQueueSubmit"}) = 1

\* ------------------------------------------------------------ C30
\* C30: once Renderer::new has returned, and so before any draw_frame call,
\* every texture image has gone through exactly two layout transitions,
\* undefined to transfer-destination and transfer-destination to
\* shader-read-only, with its buffer-to-image copy recorded between them; every
\* image is in the shader-read-only layout; and the staging buffer was
\* destroyed after the submission, when its copies were no longer pending.
C30_TextureLayouts ==
    /\ (draw_calls > 0 \/ pc = "wait") => "renderer" \in created
    /\ "renderer" \in created =>
          LET log == textures.log
              n == Len(textures.images_data)
              Position(op) == {k \in 1 .. Len(log) : log[k].op = op}
          IN  /\ \A i \in 1 .. n :
                    LET OfImage(step) == "image" \in DOMAIN step /\ step.image = i
                        commands == SelectSeq(log, OfImage)
                    IN  /\ Len(commands) = 3
                        /\ commands[1].op = "vkCmdPipelineBarrier"
                        /\ commands[1].oldLayout = "UNDEFINED"
                        /\ commands[1].newLayout = "TRANSFER_DST_OPTIMAL"
                        /\ commands[2].op = "vkCmdCopyBufferToImage"
                        /\ commands[2].dstImageLayout = "TRANSFER_DST_OPTIMAL"
                        /\ commands[3].op = "vkCmdPipelineBarrier"
                        /\ commands[3].oldLayout = "TRANSFER_DST_OPTIMAL"
                        /\ commands[3].newLayout = "SHADER_READ_ONLY_OPTIMAL"
                        /\ textures.layout[i] = "SHADER_READ_ONLY_OPTIMAL"
              /\ Cardinality(Position("destroy_staging")) = 1
              /\ Cardinality(Position("vkQueueSubmit")) = 1
              /\ \A d \in Position("destroy_staging") :
                    /\ ~log[d].copy_pending
                    /\ \A s \in Position("vkQueueWaitIdle") : s < d

\* ------------------------------------------------------------ C31
\* C31: the drop of the Renderer destroys nothing before vkDeviceWaitIdle has
\* returned success; then it destroys the frame slots (each: unmap and destroy
\* the two buffers, the two semaphores, the two fences, the command pool), the
\* descriptor pool and layout, the two arena buffers, the upload command pool,
\* the pipeline, the render pass and the swapchain, and after these the
\* texture images, each as view, image, memory.
C31_TeardownOrder ==
    (\E k \in 1 .. Len(drop_log) : drop_log[k].op \notin {"vkDeviceWaitIdle", "panic"}) =>
        /\ drop_log[1] = [op |-> "vkDeviceWaitIdle", result |-> "VK_SUCCESS"]
        /\ SubSeq(drop_log, 2, Len(drop_log)) =
              FrameDataDestroy(0) \o FrameDataDestroy(1) \o FrameDataDestroy(2)
                  \o RendererDestroy
                  \o [k \in 1 .. (3 * Len(textures.images_data)) |->
                         [op |-> <<"vkDestroyImageView", "vkDestroyImage",
                                   "vkFreeMemory">>[((k - 1) % 3) + 1],
                          image |-> ((k - 1) \div 3) + 1]]

\* ------------------------------------------------------------ C32
\* C32: the image count Swapchain::new requests is minImageCount + 1, lowered
\* to maxImageCount when maxImageCount > 0 and minImageCount + 1 exceeds it;
\* with maxImageCount = 0 (no limit) it is always minImageCount + 1.
C32_ImageCount ==
    LET min == surface.capabilities.minImageCount
        max == surface.capabilities.maxImageCount
        requested == swapchain_state.minImageCount
    IN  /\ max = 0 => requested = min + 1
        /\ (max > 0 /\ min + 1 > max) => requested = max
        /\ (max > 0 /\ min + 1 <= max) => requested = min + 1

\* A swapchain recreated on a surface whose maximum equals its minimum: the
\* request was lowered to the maximum.
C32_Witness ==
    /\ swapchain > 0
    /\ surface.capabilities.minImageCount = 2
    /\ surface.capabilities.maxImageCount = 2
    /\ swapchain_state.minImageCount = 2

\* C33: every swapchain is created with the mailbox present mode when mailbox
\* is anywhere in the list of present modes the surface reported, and with
\* FIFO otherwise, the empty list included; no other mode is ever used.
C33_PresentMode ==
    pc # "panicked" =>
        /\ swapchain_state.presentMode
               \in {"VK_PRESENT_MODE_MAILBOX_KHR", "VK_PRESENT_MODE_FIFO_KHR"}
        /\ swapchain_state.presentMode = "VK_PRESENT_MODE_MAILBOX_KHR"
               <=> "VK_PRESENT_MODE_MAILBOX_KHR" \in Range(surface.present_modes)
        /\ surface.present_modes = <<>>
               => swapchain_state.presentMode = "VK_PRESENT_MODE_FIFO_KHR"

\* A resize has made a swapchain on a surface that reports mailbox behind
\* another mode, and mailbox was chosen.
C33_Witness ==
    /\ swapchain = 1
    /\ pc = "idle"
    /\ Len(surface.present_modes) = 2
    /\ surface.present_modes[2] = "VK_PRESENT_MODE_MAILBOX_KHR"
    /\ swapchain_state.presentMode = "VK_PRESENT_MODE_MAILBOX_KHR"

\* C34: the fallbacks of capability negotiation never abort: on every list of
\* present modes and every list of formats the surface reports, Renderer::new
\* gets its swapchain, with FIFO when mailbox is not reported and with a
\* reported format when none is the preferred one.
C34_FallbacksNeverAbort ==
    /\ "renderer" \in created
    /\ "surface_format" \in DOMAIN swapchain_state
    /\ "VK_PRESENT_MODE_MAILBOX_KHR" \notin Range(surface.present_modes)
           => swapchain_state.presentMode = "VK_PRESENT_MODE_FIFO_KHR"
    /\ swapchain = 0 => swapchain_state.surface_format \in Range(surface.formats)

\* C35: as long as no fatal error has aborted the process, every slot whose
\* in-flight fence is unsignaled has a batch pending on the graphics queue
\* that signals it, and every slot whose present fence is unsignaled has a
\* queued present that signals it; so it is after every return of draw_frame,
\* the skip on an out-of-date acquire and the resize on the present result
\* included.
C35_FencePending ==
    pc # "panicked" =>
        \A i \in Slots :
            /\ ~in_flight_fence[i] =>
                  \E j \in gpu_work : j.kind = "render" /\ j.fence = i
            /\ ~present_fence[i] =>
                  \E j \in gpu_work : j.kind = "present" /\ j.fence = i

\* draw_frame has returned after the resize its present result asked for, and
\* both fences of its slot are unsignaled, with the batch and the present
\* pending.
C35_Witness ==
    /\ pc = "idle"
    /\ ~in_flight_fence[current_frame_index]
    /\ ~present_fence[current_frame_index]
    /\ \E e \in delete_queue_framebuffers[current_frame_index] :
          e.trigger = "present" /\ e.pushed_at = draw_calls
    /\ \E j \in gpu_work : j.kind = "render" /\ j.fence = current_frame_index
    /\ \E j \in gpu_work : j.kind = "present" /\ j.fence = current_frame_index

\* C36: in every draw_frame call that records a command buffer, the image is
\* acquired from, the framebuffer bound belongs to, and the present is queued
\* on one and the same swapchain, the one current when the call began; no
\* resize lies between the acquire and the present; the framebuffer, the render
\* area, the viewport and the scissor all have that swapchain's extent; and no
\* framebuffer that sat in a deletion queue or was destroyed when the call
\* began is bound.
C36_OneGeneration ==
    /\ [](\A r \in 1 .. Len(frame_log) :
            frame_log[r].op = "record" =>
                LET Is(k, op) == k \in 1 .. Len(frame_log) /\ frame_log[k].op = op
                    targets == frame_log[r].targets
                IN  /\ \E a \in 1 .. (r - 1) :
                          /\ Is(a, "vkAcquireNextImageKHR")
                          /\ frame_log[r].bound = {frame_log[a].swapchain}
                          /\ \A fb \in targets.framebuffers :
                                fb.swapchain = frame_log[a].swapchain
                          /\ \A p \in 1 .. Len(frame_log) :
                                Is(p, "vkQueuePresentKHR") =>
                                    /\ p > r
                                    /\ frame_log[p].swapchain = frame_log[a].swapchain
                                    /\ \A z \in a .. p : ~Is(z, "resize")
                    /\ \E p \in (r + 1) .. Len(frame_log) : Is(p, "vkQueuePresentKHR")
                    /\ targets.framebuffers # {}
                    /\ \A fb \in targets.framebuffers :
                          /\ fb.width = targets.renderArea.width
                          /\ fb.height = targets.renderArea.height
                    /\ targets.viewport = targets.renderArea
                    /\ targets.scissor = targets.renderArea)
    /\ [][(pc = "wait" /\ pc' # "wait") =>
            \A r \in 1 .. Len(frame_log') :
                frame_log'[r].op = "record" =>
                    /\ frame_log'[r].bound = {swapchain}
                    /\ frame_log'[r].targets.renderArea = swapchain_state.extent
                    /\ frame_log'[r].bound \cap destroyed_framebuffers = {}
                    /\ \A s \in Slots : \A e \in delete_queue_framebuffers[s] :
                          e.swapchain \notin frame_log'[r].bound]_vars

\* A command buffer was recorded on the second swapchain, whose extent is not
\* that of the first, while the framebuffers of the first sit in a deletion
\* queue.
C36_Witness ==
    /\ pc = "idle"
    /\ swapchain = 1
    /\ \E s \in Slots : \E e \in delete_queue_framebuffers[s] : e.swapchain = 0
    /\ \E r \in 1 .. Len(frame_log) :
          /\ frame_log[r].op = "record"
          /\ frame_log[r].bound = {1}
          /\ frame_log[r].targets.renderArea # DefaultSurface.capabilities.currentExtent
    /\ frame_log[Len(frame_log)].op = "vkQueuePresentKHR"

\* C37: whenever a draw_frame call hands a semaphore to vkAcquireNextImageKHR
\* to be signaled, no batch submitted earlier still has to wait on it, and
\* whenever it submits a batch that signals a semaphore, no batch submitted
\* earlier still has to signal it and no present queued earlier still has to
\* wait on it; the semaphores are those of the slot of the call.  Calls that
\* skip their frame and calls after a resize are among them.
C37_BinarySemaphores ==
    [][(pc = "wait" /\ pc' # "wait") =>
          \A k \in 1 .. Len(frame_log') :
              /\ frame_log'[k].op = "vkAcquireNextImageKHR" =>
                    /\ frame_log'[k].signal = ImageAvailableSemaphore(current_frame_index)
                    /\ PendingWaits(gpu_work, frame_log'[k].signal) = {}
              /\ frame_log'[k].op = "vkQueueSubmit" =>
                    /\ frame_log'[k].signal = RenderFinishedSemaphore(current_frame_index)
                    /\ PendingSignals(gpu_work, frame_log'[k].signal) = {}
                    /\ PendingWaits(gpu_work, frame_log'[k].signal) = {}]_vars

\* The fourth draw_frame call has come back to the first slot it used and
\* submitted again, after an earlier call skipped its frame on an out-of-date
\* acquire and resized.
C37_Witness ==
    /\ pc = "idle"
    /\ draw_calls > MAX_FRAMES_IN_FLIGHT
    /\ swapchain > 0
    /\ \E s \in Slots : \E e \in delete_queue_framebuffers[s] : e.trigger = "acquire"
    /\ \E k \in 1 .. Len(frame_log) : frame_log[k].op = "vkQueueSubmit"
    /\ PendingSignals(gpu_work, RenderFinishedSemaphore(current_frame_index)) # {}

\* C38: once the teardown of the renderer has completed, the framebuffers and
\* the image views of every swapchain ever created have been destroyed, those
\* a resize put in a deletion queue shortly before included.
C38_NoLeakAtShutdown ==
    pc = "dropped" =>
        /\ \A handle \in 0 .. swapchain :
              /\ handle \in destroyed_framebuffers
              /\ handle \in destroyed_image_views
        /\ \A s \in Slots :
              /\ \A e \in delete_queue_framebuffers[s] : e.swapchain \in destroyed_framebuffers
              /\ \A e \in delete_queue_image_views[s] : e.swapchain \in destroyed_image_views

====
